---- MODULE Spec2Model ----
(***************************************************************************)
(* Patch-tracking and restoration engine of the DR Excluder content        *)
(* script (src/unnamed/part_000): the patch ledger, the patch operations,  *)
(* the restore passes, the mutation watchers and the lifecycle controller. *)
(*                                                                         *)
(* The document is abstracted to two patchable elements whose role depends *)
(* on the surface the page shows:                                          *)
(*   sheets : "root"   = the grid table container (observed root),         *)
(*            "target" = a canvas inside it                                *)
(*   docs   : "root"   = a .kix-page-paginated page under #docs-editor,    *)
(*            "target" = a canvas.kix-canvas-tile-content inside the page  *)
(*   slides : "root"   = the #pages stage (observed root),                 *)
(*            "target" = a slide thumbnail svg inside the filmstrip        *)
(*   other  : the two elements are never looked at                         *)
(* On Sheets the host document may also insert a wrapper that holds the    *)
(* canvas. In the top frame the engine shows an in-page button, one more   *)
(* patchable element for every time it is built. A Slides filmstrip holds  *)
(* two more elements: "glyph" inside the thumbnail svg and "holder"        *)
(* outside any svg (hooked only in FilmSpec). DOM calls succeed in every   *)
(* action; the operators named ...Failing follow the code where a call     *)
(* throws.                                                                 *)
(***************************************************************************)
EXTENDS Integers, FiniteSets, Sequences, TLC

\* ------------------------------------------------------------- bounds
\* Number of inline writes the hostile tool may make in one behaviour.
MaxHostileWrites == 1
\* Number of bump removals (0 ms timeouts) that may be pending at a time.
MaxPendingBumps == 1
\* Number of times the in-page button is built in one behaviour.
MaxOverlays == 1

\* ------------------------------------------------------------- vocabulary
Apps == {"docs", "sheets", "slides", "other"}
Elements == {"root", "target"}
\* The in-page button, one element for every time createOverlay builds it
\* (it stands for the host, the wrapper, the button and its image).
OverlayNames == <<"overlay1", "overlay2", "overlay3">>
OverlayEl(i) == OverlayNames[i]
OverlayEls == {OverlayEl(i) : i \in 1..MaxOverlays}
\* Two more elements of a Slides filmstrip: one inside the thumbnail svg
\* (a path, say) and one outside any svg (the thumbnail's holder).
Glyph == "glyph"
Holder == "holder"
FilmEls == {Glyph, Holder}
\* Everything that has inline state.
Nodes == Elements \cup OverlayEls \cup FilmEls

\* getAttribute's answer for an attribute that is not there.
Null == "<null>"
AttrFill == "data-darkreader-inline-fill"
AttrColor == "data-darkreader-inline-color"
\* Attribute names that start with "data-darkreader-inline-".
HookAttrs == {AttrFill, AttrColor}
\* The hook attributes stripDarkReaderInlineInRoot's selector names.
SelectorAttrs == {AttrFill}

VarFill == "--darkreader-inline-fill"
PropFilter == "filter"
PropWebkitFilter == "-webkit-filter"
\* Inline properties that start with "--darkreader-inline-".
HookVars == {VarFill}
VOLATILE_OVERRIDE_PROPS == {PropFilter, PropWebkitFilter}
\* A property outside the volatile set.
PropColor == "color"
Props == HookVars \cup VOLATILE_OVERRIDE_PROPS \cup {PropColor}

ValNone == "none"
ValInvert == "invert(1) hue-rotate(180deg)"
ValBlur == "blur(1px)"
ValSepia == "sepia(1)"
\* Filters of the page's own that name the functions of the engine's filter.
ValInvertDim == "invert(0.9) hue-rotate(90deg)"
ValInvertOnly == "invert(1)"
Important == "important"

\* An inline declaration; value "" with priority "" is "not set"
\* (what getPropertyValue / getPropertyPriority answer then).
Decl(v, p) == [value |-> v, priority |-> p]
Unset == Decl("", "")

AttrValues == {"", "a", "b"}
StyleValues == {"x", "y", ValNone, ValInvert, ValBlur, ValSepia,
                ValInvertDim, ValInvertOnly,
                "red", "blue", "green"}
Decls == {Unset} \cup {Decl(v, p) : v \in StyleValues, p \in {"", Important}}

VARIABLES
  app,                  \* surface derived from location.pathname
  marker,               \* data-darkreader-mode = "dynamic" on <html>
  attrs,                \* element -> hook attribute -> value or Null
  style,                \* element -> inline property -> declaration
  patched,              \* the ledger: element -> {attrs, styles}
  observers,            \* connected watchers, in installation order
  lastActive,
  disableRaf, disableTimer1, disableTimer2,
  scheduled,            \* frame / timer callbacks the browser still holds
  bumpAttr,             \* data-dr-excluder-bump on <html> (0: absent)
  bumpTimers,           \* pending bump removals, oldest first, by value
  currentMasterEnabled,
  currentDocsEnabled, currentSheetsEnabled, currentSlidesEnabled,
  loaded,               \* the initial storage read has resolved
  styleText,            \* textContent of the style elements with STYLE_ID
  topFrame,             \* window.top === window
  currentOverlayMasterEnabled,
  overlay,              \* the in-page button: see NoOverlay
  hostileWrites,        \* inline writes made by the hostile tool so far
  attrs0, style0,       \* the inline state the page started with
  storage,              \* chrome.storage: see IdleStorage
  recomputed            \* the step that led here ran applyAll

vars == <<app, marker, attrs, style, patched, observers, lastActive,
          disableRaf, disableTimer1, disableTimer2, scheduled,
          bumpAttr, bumpTimers, currentMasterEnabled, currentDocsEnabled,
          currentSheetsEnabled, currentSlidesEnabled, loaded, styleText,
          topFrame, currentOverlayMasterEnabled, overlay,
          hostileWrites, attrs0, style0, storage, recomputed>>

\* ------------------------------------------------------------- helpers
RECURSIVE FoldSet(_, _, _)
FoldSet(Op(_, _), acc, set) ==
  IF set = {} THEN acc
  ELSE LET x == CHOOSE y \in set : TRUE
       IN FoldSet(Op, Op(acc, x), set \ {x})

EmptyLedger == [e \in {} |-> [attrs |-> <<>>, styles |-> <<>>]]
NoAttrs == [e \in Nodes |-> [n \in HookAttrs |-> Null]]
NoStyle == [e \in Nodes |-> [p \in Props |-> Unset]]

\* ------------------------------------------------------------- document shape
pathIsDocs == app = "docs"
pathIsSheets == app = "sheets"
pathIsSlides == app = "slides"

getCurrentApp ==
  IF pathIsDocs THEN "docs"
  ELSE IF pathIsSheets THEN "sheets"
  ELSE IF pathIsSlides THEN "slides"
  ELSE "other"

\* Containers a fix looks up; "root" is itself one on sheets and slides.
DocsEditor == "docs-editor"
Film == "filmstrip"
\* An element without inline state of its own that holds the target: the
\* host document inserts it, with the target inside, where the target lives.
Wrap == "wrapper"

\* The modelled elements in the subtree of node n (n included).
Subtree(n) ==
  IF n = "target" \/ n = Wrap
  THEN (IF pathIsSlides THEN {"target", Glyph} ELSE {"target"})
  ELSE IF n = "root" THEN (IF pathIsSlides THEN {"root"} ELSE {"root", "target"})
  ELSE IF n = DocsEditor /\ pathIsDocs THEN {"root", "target"}
  ELSE IF n = Film /\ pathIsSlides THEN {"target", Glyph, Holder}
  ELSE IF n \in FilmEls /\ pathIsSlides THEN {n}
  ELSE {}

IsCanvas(el) == el = "target" /\ (pathIsSheets \/ pathIsDocs)
\* matches("svg")
MatchesSvg(el) == el = "target" /\ pathIsSlides
\* matches("svg") || matches("svg *"): an svg element or one inside an svg
IsSvg(el) == el \in {"target", Glyph} /\ pathIsSlides

isDarkReaderDynamicLike == marker

\* ------------------------------------------------------------- ledger and patch operations
ensurePatchRecord(S, el) ==
  IF el \in DOMAIN S.patched THEN S
  ELSE [S EXCEPT !.patched = @ @@ (el :> [attrs |-> <<>>, styles |-> <<>>])]

StyleEntry(d) ==
  [value |-> d.value, priority |-> d.priority,
   had |-> (d.value # "" \/ d.priority # "")]

\* Variant: keeps the entry a property already has (the first value seen).
recordStylePropFirst(S, el, prop) ==
  LET R == ensurePatchRecord(S, el)
      rec == R.patched[el]
      entry == StyleEntry(R.style[el][prop])
  IN IF prop \in DOMAIN rec.styles THEN R
     ELSE [R EXCEPT !.patched[el] =
             [rec EXCEPT !.styles = (prop :> entry) @@ rec.styles]]

recordStylePropLast(S, el, prop) ==
  LET R == ensurePatchRecord(S, el)
      rec == R.patched[el]
      entry == StyleEntry(R.style[el][prop])
  IN [R EXCEPT !.patched[el] =
        [rec EXCEPT !.styles = (prop :> entry) @@ rec.styles]]

\* Variant: keeps the value recorded first instead of the latest one.
patchRemoveAttrFirst(S, el, name) ==
  LET v == S.attrs[el][name]
  IN IF v = Null THEN S
     ELSE LET R == ensurePatchRecord(S, el)
              rec == R.patched[el]
          IN [R EXCEPT !.patched[el] =
                         [rec EXCEPT !.attrs = rec.attrs @@ (name :> v)],
                       !.attrs[el][name] = Null]

\* Variant: the attribute is removed and the ledger is left as it is.
patchRemoveAttrUnrecorded(S, el, name) ==
  [S EXCEPT !.attrs[el][name] = Null]

patchRemoveAttr(S, el, name) ==
  LET v == S.attrs[el][name]
  IN IF v = Null THEN S
     ELSE LET R == ensurePatchRecord(S, el)
              rec == R.patched[el]
          IN [R EXCEPT !.patched[el] =
                         [rec EXCEPT !.attrs = (name :> v) @@ rec.attrs],
                       !.attrs[el][name] = Null]

\* Variant: removes the property without recording it.
patchRemoveStylePropUnrecorded(S, el, prop) ==
  [S EXCEPT !.style[el][prop] = Unset]

patchRemoveStyleProp(S, el, prop) ==
  LET R == recordStylePropLast(S, el, prop)
  IN [R EXCEPT !.style[el][prop] = Unset]

setImportant(S, el, prop, value) ==
  [S EXCEPT !.style[el][prop] = Decl(value, Important)]

\* Variant: every property is treated as a volatile one.
patchSetStyleImportantVolatile(S, el, prop, value) ==
  LET R == ensurePatchRecord(S, el)
      rec == R.patched[el]
      curr == R.style[el][prop]
      isAlreadyOurs == curr.value = value /\ curr.priority = Important
      recorded ==
        IF ~isAlreadyOurs
        THEN (prop :> StyleEntry(curr)) @@ rec.styles
        ELSE IF prop \notin DOMAIN rec.styles
             THEN (prop :> StyleEntry(Unset)) @@ rec.styles
             ELSE rec.styles
  IN setImportant([R EXCEPT !.patched[el] = [rec EXCEPT !.styles = recorded]],
                  el, prop, value)

\* Variant: every property keeps the first inline value seen, the engine's
\* own included.
patchSetStyleImportantFirstSeen(S, el, prop, value) ==
  LET R == ensurePatchRecord(S, el)
      rec == R.patched[el]
      curr == R.style[el][prop]
      recorded ==
        IF prop \notin DOMAIN rec.styles
        THEN (prop :> StyleEntry(curr)) @@ rec.styles
        ELSE rec.styles
  IN setImportant([R EXCEPT !.patched[el] = [rec EXCEPT !.styles = recorded]],
                  el, prop, value)

patchSetStyleImportant(S, el, prop, value) ==
  LET R == ensurePatchRecord(S, el)
      rec == R.patched[el]
      curr == R.style[el][prop]
      isAlreadyOurs == curr.value = value /\ curr.priority = Important
      recorded ==
        IF prop \in VOLATILE_OVERRIDE_PROPS
        THEN IF ~isAlreadyOurs
             THEN (prop :> StyleEntry(curr)) @@ rec.styles
             ELSE IF prop \notin DOMAIN rec.styles
                  THEN (prop :> StyleEntry(Unset)) @@ rec.styles
                  ELSE rec.styles
        ELSE IF prop \notin DOMAIN rec.styles
             THEN (prop :> StyleEntry(curr)) @@ rec.styles
             ELSE rec.styles
  IN setImportant([R EXCEPT !.patched[el] = [rec EXCEPT !.styles = recorded]],
                  el, prop, value)

\* el.style.setProperty(prop, value, priority): an empty value removes.
SetProperty(S, el, prop, value, priority) ==
  [S EXCEPT !.style[el][prop] =
     IF value = "" THEN Unset ELSE Decl(value, priority)]

\* Variant: exchanges the recorded values with the live ones (undo / redo).
RestoreElementExchanging(S, el) ==
  LET rec == S.patched[el]
      live == [attrs |-> [n \in DOMAIN rec.attrs |-> S.attrs[el][n]],
               styles |-> [p \in DOMAIN rec.styles |-> StyleEntry(S.style[el][p])]]
  IN [S EXCEPT !.attrs[el] =
                 [n \in HookAttrs |->
                    IF n \in DOMAIN rec.attrs THEN rec.attrs[n] ELSE @[n]],
               !.style[el] =
                 [p \in Props |->
                    IF p \in DOMAIN rec.styles
                    THEN Decl(rec.styles[p].value, rec.styles[p].priority)
                    ELSE @[p]],
               !.patched[el] = live]

\* Variant: an attribute the element carries again is left as it is.
RestoreElementKeepingLive(S, el) ==
  LET rec == S.patched[el]
      A == [S EXCEPT !.attrs[el] =
              [n \in HookAttrs |->
                 IF n \in DOMAIN rec.attrs /\ @[n] = Null
                 THEN rec.attrs[n] ELSE @[n]]]
      RestoreProp(T, prop) ==
        LET s == rec.styles[prop]
        IN IF ~s.had THEN [T EXCEPT !.style[el][prop] = Unset]
           ELSE SetProperty(T, el, prop, s.value, s.priority)
  IN FoldSet(RestoreProp, A, DOMAIN rec.styles)

\* Variant: a property recorded as absent is left as the page holds it.
RestoreElementSkippingAbsent(S, el) ==
  LET rec == S.patched[el]
      A == [S EXCEPT !.attrs[el] =
              [n \in HookAttrs |->
                 IF n \in DOMAIN rec.attrs THEN rec.attrs[n] ELSE @[n]]]
      RestoreProp(T, prop) ==
        LET s == rec.styles[prop]
        IN IF ~s.had THEN T
           ELSE SetProperty(T, el, prop, s.value, s.priority)
  IN FoldSet(RestoreProp, A, DOMAIN rec.styles)

RestoreElement(S, el) ==
  LET rec == S.patched[el]
      A == [S EXCEPT !.attrs[el] =
              [n \in HookAttrs |->
                 IF n \in DOMAIN rec.attrs THEN rec.attrs[n] ELSE @[n]]]
      RestoreProp(T, prop) ==
        LET s == rec.styles[prop]
        IN IF ~s.had THEN [T EXCEPT !.style[el][prop] = Unset]
           ELSE SetProperty(T, el, prop, s.value, s.priority)
  IN FoldSet(RestoreProp, A, DOMAIN rec.styles)

\* Variant: a non-clearing restore forgets the element it restored first.
restoreAllPatchesDraining(S, clear) ==
  IF DOMAIN S.patched = {} THEN S
  ELSE LET R == FoldSet(RestoreElement, S, DOMAIN S.patched)
           first == CHOOSE el \in DOMAIN S.patched : TRUE
       IN IF clear THEN [R EXCEPT !.patched = EmptyLedger]
          ELSE [R EXCEPT !.patched =
                  [el \in DOMAIN S.patched \ {first} |-> S.patched[el]]]

restoreAllPatches(S, clear) ==
  IF DOMAIN S.patched = {} THEN S
  ELSE LET R == FoldSet(RestoreElement, S, DOMAIN S.patched)
       IN IF clear THEN [R EXCEPT !.patched = EmptyLedger] ELSE R

\* ------------------------------------------------------------- hook stripping
stripDarkReaderInline(S, el) ==
  LET RemoveAttr(T, name) == patchRemoveAttr(T, el, name)
      A == FoldSet(RemoveAttr, S, {n \in HookAttrs : S.attrs[el][n] # Null})
      RemoveVar(T, prop) == patchRemoveStyleProp(T, el, prop)
  IN FoldSet(RemoveVar, A, {p \in HookVars : A.style[el][p] # Unset})

\* querySelectorAll(selectorParts) inside root: descendants carrying one of
\* the eight listed hook attributes or an inline style that mentions a
\* "--darkreader-inline-" variable.
SelectorMatches(S, el) ==
  \/ \E n \in SelectorAttrs : S.attrs[el][n] # Null
  \/ \E p \in HookVars : S.style[el][p] # Unset

stripDarkReaderInlineInRoot(S, root, svgOnly) ==
  LET Strip(T, el) == stripDarkReaderInline(T, el)
  IN IF svgOnly
     THEN LET R == IF root \in Nodes /\ IsSvg(root)
                   THEN stripDarkReaderInline(S, root) ELSE S
          IN FoldSet(Strip, R, {e \in Subtree(root) \ {root} : IsSvg(e)})
     ELSE LET R == IF root \in Nodes
                   THEN stripDarkReaderInline(S, root) ELSE S
          IN FoldSet(Strip, R,
                     {e \in Subtree(root) \ {root} : SelectorMatches(R, e)})

OverrideFilters(S, el, value) ==
  patchSetStyleImportant(patchSetStyleImportant(S, el, PropFilter, value),
                         el, PropWebkitFilter, value)

clearCanvasFilters(S, root) ==
  LET Clear(T, c) == OverrideFilters(T, c, ValNone)
  IN FoldSet(Clear, S, {c \in Subtree(root) : IsCanvas(c)})

\* Every modelled filmstrip svg holds a slide ([id^='editor-p']).
applySlidesThumbInversion(S, filmRoot, invertEnabled) ==
  LET Invert(T, svg) == OverrideFilters(T, svg, ValInvert)
  IN IF invertEnabled
     THEN FoldSet(Invert, S, {e \in Subtree(filmRoot) : MatchesSvg(e)})
     ELSE S

\* ------------------------------------------------------------- cleanup sweep
isNone(v) == v = ValNone
\* The substrings "invert(" and "hue-rotate" a filter value contains.
Includes(v) ==
  IF v \in {ValInvert, ValInvertDim} THEN {"invert(", "hue-rotate"}
  ELSE IF v = ValInvertOnly THEN {"invert("}
  ELSE {}
isInvertThumb(v) == "invert(" \in Includes(v) /\ "hue-rotate" \in Includes(v)

removeInlinePropIf(S, el, prop, isOurs(_)) ==
  LET d == S.style[el][prop]
  IN IF d.value = "" THEN S
     ELSE IF isOurs(d.value) /\ d.priority = Important
          THEN [S EXCEPT !.style[el][prop] = Unset]
          ELSE S

SweepElement(S, el, isOurs(_)) ==
  removeInlinePropIf(removeInlinePropIf(S, el, PropFilter, isOurs),
                     el, PropWebkitFilter, isOurs)

\* Variant: the sweep removes every important-priority filter of its
\* targets, whatever the value.
cleanupDisableLeftoversAnyValue(S) ==
  LET AnyValue(v) == TRUE
      Sweep(T, el) == SweepElement(T, el, AnyValue)
      D == IF pathIsDocs THEN FoldSet(Sweep, S, Subtree(DocsEditor)) ELSE S
      G == IF pathIsSheets
           THEN FoldSet(Sweep, D, {c \in Subtree("root") : IsCanvas(c)})
           ELSE D
  IN IF pathIsSlides
     THEN FoldSet(Sweep, G, {e \in Subtree(Film) : MatchesSvg(e)})
     ELSE G

cleanupDisableLeftovers(S) ==
  LET SweepNone(T, el) == SweepElement(T, el, isNone)
      SweepInvert(T, el) == SweepElement(T, el, isInvertThumb)
      D == IF pathIsDocs THEN FoldSet(SweepNone, S, Subtree(DocsEditor)) ELSE S
      G == IF pathIsSheets
           THEN FoldSet(SweepNone, D, {c \in Subtree("root") : IsCanvas(c)})
           ELSE D
  IN IF pathIsSlides
     THEN FoldSet(SweepInvert, G, {e \in Subtree(Film) : MatchesSvg(e)})
     ELSE G

\* ------------------------------------------------------------- watchers
\* A mutation record: a node added under an observed root, or an attribute
\* (the style attribute or a hook attribute) changed on an observed element.
ChildList(n) == [type |-> "childList", node |-> n, attributeName |-> ""]
Attributes(n, an) == [type |-> "attributes", node |-> n, attributeName |-> an]

\* What a watcher of each kind observes and how it reconciles.
WatchCfg(kind) ==
  CASE kind = "grid" ->
         [root |-> "root", svgOnly |-> FALSE, alsoCanvas |-> TRUE,
          watchAttributes |-> TRUE]
    [] kind = "stage" ->
         [root |-> "root", svgOnly |-> FALSE, alsoCanvas |-> FALSE,
          watchAttributes |-> TRUE]
    [] kind = "film" ->
         [root |-> Film, svgOnly |-> TRUE, alsoCanvas |-> FALSE,
          watchAttributes |-> TRUE]
    [] kind = "docs" ->
         [root |-> DocsEditor, svgOnly |-> FALSE, alsoCanvas |-> FALSE,
          watchAttributes |-> FALSE]
    [] OTHER ->  \* boot watchers observe document.documentElement
         [root |-> "html", svgOnly |-> FALSE, alsoCanvas |-> FALSE,
          watchAttributes |-> FALSE]

\* The elements of the page.
PageEls == IF pathIsSlides THEN Elements \cup FilmEls ELSE Elements

Observed(kind) ==
  IF WatchCfg(kind).root = "html" THEN PageEls ELSE Subtree(WatchCfg(kind).root)

Watcher(kind) == [kind |-> kind, recs |-> {}]

\* The records the browser queues for watcher o when the page goes from B to A.
NewRecords(o, B, A) ==
  IF ~WatchCfg(o.kind).watchAttributes THEN {}
  ELSE {Attributes(e, "style") :
          e \in {x \in Observed(o.kind) : B.style[x] # A.style[x]}}
       \cup
       {r \in {Attributes(e, n) : e \in Observed(o.kind), n \in HookAttrs} :
          B.attrs[r.node][r.attributeName] # A.attrs[r.node][r.attributeName]}

\* Queue the records of the change B -> A on every connected watcher.
Notify(B, A) ==
  [A EXCEPT !.observers =
     [i \in DOMAIN @ |-> [@[i] EXCEPT !.recs = @ \cup NewRecords(A.observers[i], B, A)]]]

\* Variant: the boot watchers stay connected.
disconnectReconcilers(W) ==
  LET IsBoot(o) == o.kind \in {"bootSheets", "bootSlides"}
  IN [W EXCEPT !.observers = SelectSeq(@, IsBoot)]

disconnectAll(W) == [W EXCEPT !.observers = <<>>]

\* ------------------------------------------------------------- settings
KEY_MASTER == "dr_exclude_content_dynamic_v1"
KEY_OVERLAY_MASTER == "dr_show_overlay_v1"
KEY_DOCS_EXCLUDE == "dr_exclude_docs_v1"
KEY_SHEETS_EXCLUDE == "dr_exclude_sheets_v1"
KEY_SLIDES_EXCLUDE == "dr_exclude_slides_v1"
ExcludeKeys ==
  {KEY_MASTER, KEY_DOCS_EXCLUDE, KEY_SHEETS_EXCLUDE, KEY_SLIDES_EXCLUDE}
KEY_POS_MODE == "dr_overlay_pos_mode_v1"
\* The keys the listener knows; KEY_OVERLAY_MASTER stands for the overlay
\* keys and KEY_POS_MODE for the position keys, which change no enablement
\* flag.
KnownKeys == ExcludeKeys \cup {KEY_OVERLAY_MASTER, KEY_POS_MODE}

\* Stored values: the two booleans, or anything else (missing, wrong type).
StoredValues == {"true", "false", "undefined"}

boolOrDefault(v, dflt) ==
  IF v = "true" THEN TRUE ELSE IF v = "false" THEN FALSE ELSE dflt

getCurrentAppExcludeEnabled(W) ==
  IF pathIsDocs THEN W.currentDocsEnabled
  ELSE IF pathIsSheets THEN W.currentSheetsEnabled
  ELSE IF pathIsSlides THEN W.currentSlidesEnabled
  ELSE TRUE

\* Variant: the master flag alone decides.
getMasterExcludeEnabled(W) == W.currentMasterEnabled

getEffectiveExcludeEnabled(W) ==
  W.currentMasterEnabled /\ getCurrentAppExcludeEnabled(W)

getCurrentAppExcludeKey ==
  IF pathIsDocs THEN KEY_DOCS_EXCLUDE
  ELSE IF pathIsSheets THEN KEY_SHEETS_EXCLUDE
  ELSE IF pathIsSlides THEN KEY_SLIDES_EXCLUDE
  ELSE "null"

stillEnabled(W) == getEffectiveExcludeEnabled(W) /\ isDarkReaderDynamicLike

\* ------------------------------------------------------------- in-page button
\* host: the overlay in the document (0: none); made: how many were built;
\* frames: the overlays whose scrub frames are still to come.
\* host: the overlay in the document (0: none); made: overlays created so
\* far; frames: overlays with a scrub frame pending; pointerId and didDrag:
\* the gesture state of the button's handlers (0: no pointer captured).
NoOverlay ==
  [host |-> 0, made |-> 0, frames |-> {}, pointerId |-> 0, didDrag |-> FALSE]

isEditorPage == pathIsDocs \/ pathIsSheets \/ pathIsSlides

\* The per-surface overlay flags keep their default (true).
getCurrentAppOverlayEnabled == isEditorPage

shouldShowOverlay(W) ==
  W.currentOverlayMasterEnabled /\ getCurrentAppOverlayEnabled

removeOverlay(W) == [W EXCEPT !.overlay.host = 0]

\* scrubOverlay of overlay i: its elements are stripped like any other.
scrubOverlay(W, i) == stripDarkReaderInline(W, OverlayEl(i))

\* A new overlay: scrubbed as it is built and once it is in the document,
\* and again in the next frame (both requested frames run as one). One more
\* than MaxOverlays is only counted (WithinBounds rejects the handler).
createOverlay(W) ==
  IF ~isEditorPage \/ ~topFrame THEN W
  ELSE LET R == removeOverlay(W)
           i == R.overlay.made + 1
       IN IF i > MaxOverlays THEN [R EXCEPT !.overlay.made = i]
          ELSE scrubOverlay(
                 [R EXCEPT !.overlay = [host |-> i, made |-> i,
                                        frames |-> @.frames \cup {i},
                                        pointerId |-> 0,
                                        didDrag |-> FALSE]], i)

updateOverlayVisibility(W) ==
  IF ~topFrame THEN W
  ELSE IF shouldShowOverlay(W)
       THEN IF W.overlay.host = 0 THEN createOverlay(W) ELSE W
       ELSE IF W.overlay.host # 0 THEN removeOverlay(W) ELSE W

\* ------------------------------------------------------------- app-specific fixes
buildCSS(excludeEnabled) == IF excludeEnabled THEN "rules" ELSE ""

Push(W, kind) == [W EXCEPT !.observers = Append(@, Watcher(kind))]

\* fix() of applyDocsFix: pages and canvas tiles under #docs-editor.
DocsFixPass(W) ==
  LET Clear(T, el) == OverrideFilters(T, el, ValNone)
  IN IF ~stillEnabled(W) THEN W
     ELSE Notify(W, FoldSet(Clear, W, Subtree(DocsEditor)))

applyDocsFix(W) == Push(DocsFixPass(W), "docs")

applySheetsFix(W) ==
  IF ~stillEnabled(W) THEN W
  ELSE Push(Notify(W, clearCanvasFilters(
                        stripDarkReaderInlineInRoot(W, "root", FALSE), "root")),
            "grid")

applySlidesFix(W, invertThumbs) ==
  LET stage == Push(Notify(W, stripDarkReaderInlineInRoot(W, "root", FALSE)),
                    "stage")
  IN Push(Notify(stage,
                 applySlidesThumbInversion(
                   stripDarkReaderInlineInRoot(stage, Film, TRUE),
                   Film, invertThumbs)),
          "film")

\* ------------------------------------------------------------- disable sequence
\* A frame or timer callback the browser holds: its handle and its pass.
Handle(id, pass) == <<id, pass>>

\* The smallest number that is not in `used`.
Fresh(used) == CHOOSE n \in 1..(Cardinality(used) + 1) :
                 n \notin used /\ \A m \in 1..(n - 1) : m \in used

\* The handle requestAnimationFrame / setTimeout hand out next: a number no
\* pending callback and no remembered handle carries (only the identity of a
\* handle matters, so the smallest free number stands for "a new one").
NewHandle(W) ==
  Fresh({h[1] : h \in W.scheduled}
        \cup {W.disableRaf, W.disableTimer1, W.disableTimer2})

\* Variant: the 140 ms timer is left running.
cancelFrameAndFirstTimer(W) ==
  [W EXCEPT !.scheduled = @ \ {Handle(W.disableRaf, "raf"),
                               Handle(W.disableTimer1, "t60")},
            !.disableRaf = 0, !.disableTimer1 = 0, !.disableTimer2 = 0]

cancelDisableRestoreSequence(W) ==
  [W EXCEPT !.scheduled = @ \ {Handle(W.disableRaf, "raf"),
                               Handle(W.disableTimer1, "t60"),
                               Handle(W.disableTimer2, "t140")},
            !.disableRaf = 0, !.disableTimer1 = 0, !.disableTimer2 = 0]

\* The bump values in use: on <html> or awaited by a pending removal.
BumpValues(attr, timers) == ({attr} \cup {timers[i] : i \in DOMAIN timers}) \ {0}

Max(set) == CHOOSE n \in set : \A m \in set : m <= n
Min(set) == CHOOSE n \in set : \A m \in set : n <= m

\* Variant: the attribute is written and no removal is scheduled.
bumpDarkReaderDynamicAtKeeping(W, sameMs) ==
  IF ~isDarkReaderDynamicLike THEN W
  ELSE LET latest == Max(BumpValues(W.bumpAttr, W.bumpTimers) \cup {0})
           val == IF sameMs /\ latest # 0 THEN latest ELSE latest + 1
       IN [W EXCEPT !.bumpAttr = val]

\* The bump value is String(Date.now()): the value of the latest bump when
\* the clock still shows the same millisecond (sameMs), a later one
\* otherwise. Times count from the oldest value still in use.
bumpDarkReaderDynamicAt(W, sameMs) ==
  IF ~isDarkReaderDynamicLike THEN W
  ELSE LET latest == Max(BumpValues(W.bumpAttr, W.bumpTimers) \cup {0})
           val == IF sameMs /\ latest # 0 THEN latest ELSE latest + 1
       IN [W EXCEPT !.bumpAttr = val, !.bumpTimers = Append(@, val)]

\* A bump at a time of its own.
bumpDarkReaderDynamic(W) == bumpDarkReaderDynamicAt(W, FALSE)

\* The bump's removal callback for the oldest pending value.
bumpRemoval(W) ==
  LET val == Head(W.bumpTimers)
      attr == IF W.bumpAttr = val THEN 0 ELSE W.bumpAttr
      rest == Tail(W.bumpTimers)
      shift == IF BumpValues(attr, rest) = {} THEN 0
               ELSE Min(BumpValues(attr, rest)) - 1
  IN [W EXCEPT !.bumpAttr = IF attr = 0 THEN 0 ELSE attr - shift,
               !.bumpTimers = [i \in DOMAIN rest |-> rest[i] - shift]]

\* The body of one pass: restore, then the cleanup sweep.
RestorePass(W, clear) ==
  Notify(W, cleanupDisableLeftovers(restoreAllPatches(W, clear)))

\* The disable sequence started while the clock shows the millisecond of
\* the latest bump (sameMs) or a later one.
runDisableRestoreSequenceAt(W, sameMs) ==
  LET C == cancelDisableRestoreSequence(W)
      P == bumpDarkReaderDynamicAt(RestorePass(C, FALSE), sameMs)
      h == NewHandle(P)
  IN [P EXCEPT !.disableRaf = h, !.disableTimer1 = h, !.disableTimer2 = h,
               !.scheduled = @ \cup {Handle(h, "raf"), Handle(h, "t60"),
                                     Handle(h, "t140")}]

runDisableRestoreSequence(W) == runDisableRestoreSequenceAt(W, FALSE)

\* ------------------------------------------------------------- lifecycle controller
ComputeActive(W) == getEffectiveExcludeEnabled(W) /\ isDarkReaderDynamicLike

BootKind == IF pathIsSheets THEN "bootSheets" ELSE "bootSlides"

\* Variant: a style element is created on every call.
ensureStyleElCreating(W) == [W EXCEPT !.styleText = <<"">> \o @]

\* getElementById(STYLE_ID) answers the first style element with the id; a
\* new, empty one is appended to <html> when there is none.
ensureStyleEl(W) ==
  IF W.styleText = <<>> THEN [W EXCEPT !.styleText = <<"">>] ELSE W

applyAll(W) ==
  LET D == ensureStyleEl(disconnectAll(W))
      active == ComputeActive(D)
      S == [D EXCEPT !.styleText[1] = buildCSS(active)]
  IN IF ~active
     THEN [(IF S.lastActive THEN runDisableRestoreSequence(S)
            ELSE Notify(S, restoreAllPatches(S, TRUE)))
           EXCEPT !.lastActive = FALSE]
     ELSE LET C == [cancelDisableRestoreSequence(S) EXCEPT !.lastActive = TRUE]
              F == IF pathIsDocs THEN applyDocsFix(C)
                   ELSE IF pathIsSheets THEN applySheetsFix(C)
                   ELSE IF pathIsSlides THEN applySlidesFix(C, TRUE)
                   ELSE C
          IN IF pathIsSheets \/ pathIsSlides THEN Push(F, BootKind) ELSE F

\* ------------------------------------------------------------- state as a record
World ==
  [attrs |-> attrs, style |-> style, patched |-> patched,
   observers |-> observers, lastActive |-> lastActive,
   disableRaf |-> disableRaf, disableTimer1 |-> disableTimer1,
   disableTimer2 |-> disableTimer2, scheduled |-> scheduled,
   bumpAttr |-> bumpAttr, bumpTimers |-> bumpTimers,
   currentMasterEnabled |-> currentMasterEnabled,
   currentDocsEnabled |-> currentDocsEnabled,
   currentSheetsEnabled |-> currentSheetsEnabled,
   currentSlidesEnabled |-> currentSlidesEnabled,
   styleText |-> styleText,
   currentOverlayMasterEnabled |-> currentOverlayMasterEnabled,
   overlay |-> overlay]

Install(W) ==
  /\ attrs' = W.attrs
  /\ style' = W.style
  /\ patched' = W.patched
  /\ observers' = W.observers
  /\ lastActive' = W.lastActive
  /\ disableRaf' = W.disableRaf
  /\ disableTimer1' = W.disableTimer1
  /\ disableTimer2' = W.disableTimer2
  /\ scheduled' = W.scheduled
  /\ bumpAttr' = W.bumpAttr
  /\ bumpTimers' = W.bumpTimers
  /\ currentMasterEnabled' = W.currentMasterEnabled
  /\ currentDocsEnabled' = W.currentDocsEnabled
  /\ currentSheetsEnabled' = W.currentSheetsEnabled
  /\ currentSlidesEnabled' = W.currentSlidesEnabled
  /\ styleText' = W.styleText
  /\ currentOverlayMasterEnabled' = W.currentOverlayMasterEnabled
  /\ overlay' = W.overlay

\* A handler runs only while the 0 ms bump removals it leaves pending and
\* the overlays it has built stay within the bounds.
WithinBounds(W) ==
  Len(W.bumpTimers) <= MaxPendingBumps /\ W.overlay.made <= MaxOverlays

\* ------------------------------------------------------------- watcher callbacks
\* n.matches("svg") || n.querySelector("svg")
HoldsSvg(n) == \E e \in Subtree(n) : MatchesSvg(e)

\* Variant: only a record of the style attribute starts a strip.
ReconcileRecordStyleOnly(W, cfg, r) ==
  IF r.type = "childList"
  THEN LET T == IF cfg.svgOnly
                THEN IF HoldsSvg(r.node)
                     THEN stripDarkReaderInlineInRoot(W, r.node, TRUE)
                     ELSE W
                ELSE stripDarkReaderInlineInRoot(W, r.node, FALSE)
       IN IF cfg.alsoCanvas THEN clearCanvasFilters(T, r.node) ELSE T
  ELSE IF r.type = "attributes" /\ cfg.watchAttributes
          /\ r.attributeName = "style"
  THEN LET T == IF cfg.svgOnly
                THEN IF IsSvg(r.node) THEN stripDarkReaderInline(W, r.node)
                     ELSE W
                ELSE stripDarkReaderInline(W, r.node)
       IN IF cfg.alsoCanvas /\ IsCanvas(r.node)
          THEN clearCanvasFilters(T, r.node) ELSE T
  ELSE W

ReconcileRecord(W, cfg, r) ==
  IF r.type = "childList"
  THEN LET T == IF cfg.svgOnly
                THEN IF HoldsSvg(r.node)
                     THEN stripDarkReaderInlineInRoot(W, r.node, TRUE)
                     ELSE W
                ELSE stripDarkReaderInlineInRoot(W, r.node, FALSE)
       IN IF cfg.alsoCanvas THEN clearCanvasFilters(T, r.node) ELSE T
  ELSE IF r.type = "attributes" /\ cfg.watchAttributes
          /\ (r.attributeName = "style" \/ r.attributeName \in HookAttrs)
  THEN LET T == IF cfg.svgOnly
                THEN IF IsSvg(r.node) THEN stripDarkReaderInline(W, r.node)
                     ELSE W
                ELSE stripDarkReaderInline(W, r.node)
       IN IF cfg.alsoCanvas /\ IsCanvas(r.node)
          THEN clearCanvasFilters(T, r.node) ELSE T
  ELSE W

\* Variant: the batch is processed whatever the flags and the marker say.
watchMutationsCallbackUnguarded(W, kind, mutations) ==
  LET cfg == WatchCfg(kind)
      Step(T, r) == ReconcileRecord(T, cfg, r)
      R == FoldSet(Step, W, mutations)
  IN IF kind = "film" THEN applySlidesThumbInversion(R, Film, TRUE) ELSE R

\* The MutationObserver callback of watchMutations for one batch.
watchMutationsCallback(W, kind, mutations) ==
  LET cfg == WatchCfg(kind)
      Step(T, r) == ReconcileRecord(T, cfg, r)
  IN IF ~stillEnabled(W) THEN W
     ELSE LET R == FoldSet(Step, W, mutations)
          IN IF kind = "film"
             THEN applySlidesThumbInversion(R, Film, TRUE) ELSE R

RemoveAt(q, i) == [j \in 1..(Len(q) - 1) |-> IF j < i THEN q[j] ELSE q[j + 1]]

\* The boot watcher's callback: the roots exist, so it retires itself and
\* runs the surface's fix once more.
bootCallback(W, i) ==
  IF ~stillEnabled(W) THEN W
  ELSE LET R == [W EXCEPT !.observers = RemoveAt(@, i)]
       IN IF pathIsSheets THEN applySheetsFix(R) ELSE applySlidesFix(R, TRUE)

\* Variant: the delivered records stay in the watcher's queue.
DeliverKeepingRecords(W, i) ==
  LET o == W.observers[i]
  IN IF o.kind \in {"grid", "stage", "film"}
     THEN Notify(W, watchMutationsCallback(W, o.kind, o.recs))
     ELSE IF o.kind = "docs" THEN DocsFixPass(W)
     ELSE bootCallback(W, i)

Deliver(W, i) ==
  LET o == W.observers[i]
      T == [W EXCEPT !.observers[i].recs = {}]
  IN IF o.kind \in {"grid", "stage", "film"}
     THEN Notify(T, watchMutationsCallback(T, o.kind, o.recs))
     ELSE IF o.kind = "docs" THEN DocsFixPass(T)
     ELSE bootCallback(T, i)

\* ------------------------------------------------------------- initial states
\* The answers of storage.sync.get that have come in: none while the read
\* has not been served.
NoData == <<>>

\* chrome.storage as the content script starts: nothing stored, the read of
\* loadStateAndApply not served yet, no change notification under way.
\* stored: the sync area; data: what the read found; events: the change
\* notifications not delivered yet, oldest first; writes: writes from
\* outside the page so far; clicks: click events of the button so far.
IdleStorage ==
  [stored |-> [k \in KnownKeys |-> "undefined"], data |-> NoData,
   events |-> <<>>, writes |-> 0, clicks |-> 0]

InitEngine ==
  /\ app \in Apps
  /\ marker \in BOOLEAN
  /\ patched = EmptyLedger
  /\ observers = <<>>
  /\ lastActive = FALSE
  /\ disableRaf = 0 /\ disableTimer1 = 0 /\ disableTimer2 = 0
  /\ scheduled = {}
  /\ bumpAttr = 0
  /\ bumpTimers = <<>>
  /\ currentMasterEnabled = FALSE
  /\ currentDocsEnabled = TRUE
  /\ currentSheetsEnabled = TRUE
  /\ currentSlidesEnabled = TRUE
  /\ loaded = FALSE
  /\ styleText = <<>>
  /\ currentOverlayMasterEnabled = TRUE
  /\ overlay = NoOverlay
  /\ hostileWrites = 0
  /\ attrs0 = attrs
  /\ style0 = style
  /\ storage = IdleStorage
  /\ recomputed = FALSE

\* A page the hostile tool has already reached: hooks on the root and on the
\* target, and a filter of the page's own on the target.
HookedPage ==
  [attrs |-> [NoAttrs EXCEPT !["root"][AttrFill] = "a",
                             !["target"] = (AttrFill :> "a") @@ (AttrColor :> "")],
   style |-> [NoStyle EXCEPT !["target"] =
                (VarFill :> Decl("x", Important)) @@
                (PropFilter :> Decl(ValBlur, "")) @@
                (PropWebkitFilter :> Unset) @@
                (PropColor :> Unset)]]

Init ==
  /\ topFrame = FALSE
  /\ attrs = HookedPage.attrs
  /\ style = HookedPage.style
  /\ InitEngine

\* ------------------------------------------------------------- actions
\* Some connected watcher has records to deliver.
RecordsPending == \E i \in DOMAIN observers : observers[i].recs # {}

\* Mutation records are delivered at the microtask checkpoint that ends the
\* task which queued them: a storage, frame or timer task starts only once
\* no record is pending.
TaskBoundary == ~RecordsPending

ReadFlags(W, data) ==
  [W EXCEPT
     !.currentMasterEnabled = boolOrDefault(data[KEY_MASTER], FALSE),
     !.currentOverlayMasterEnabled =
        boolOrDefault(data[KEY_OVERLAY_MASTER], TRUE),
     !.currentDocsEnabled = boolOrDefault(data[KEY_DOCS_EXCLUDE], TRUE),
     !.currentSheetsEnabled = boolOrDefault(data[KEY_SHEETS_EXCLUDE], TRUE),
     !.currentSlidesEnabled = boolOrDefault(data[KEY_SLIDES_EXCLUDE], TRUE)]

\* The values of the overlay master flag that are tried: it decides
\* something only in the top frame.
OverlayStoredValues == IF topFrame THEN {"true", "false"} ELSE {"undefined"}

\* Stored settings the initial read may find: the master flag and the flag of
\* the current surface take every stored value, the rest is not stored.
LoadInputs ==
  {[k \in KnownKeys |->
      IF k = KEY_MASTER THEN m
      ELSE IF k = getCurrentAppExcludeKey THEN a
      ELSE IF k = KEY_OVERLAY_MASTER THEN o ELSE "undefined"] :
     m \in StoredValues, a \in StoredValues, o \in OverlayStoredValues}

Environment ==
  UNCHANGED <<app, marker, topFrame, hostileWrites, attrs0, style0, storage>>

\* loadStateAndApply, from the moment the storage read resolves.
LoadWith(data) ==
  /\ ~loaded
  /\ TaskBoundary
  /\ \E W \in {applyAll(updateOverlayVisibility(ReadFlags(World, data)))} :
       WithinBounds(W) /\ Install(W)
  /\ loaded' = TRUE
  /\ recomputed' = TRUE
  /\ Environment

LoadStateAndApply == \E data \in LoadInputs : LoadWith(data)

ApplyChanges(W, changes) ==
  LET Has(k) == k \in DOMAIN changes
      readBool(k, d) == boolOrDefault(changes[k], d)
  IN [W EXCEPT
        !.currentMasterEnabled =
           IF Has(KEY_MASTER) THEN readBool(KEY_MASTER, FALSE) ELSE @,
        !.currentOverlayMasterEnabled =
           IF Has(KEY_OVERLAY_MASTER) THEN readBool(KEY_OVERLAY_MASTER, TRUE)
           ELSE @,
        !.currentDocsEnabled =
           IF Has(KEY_DOCS_EXCLUDE) THEN readBool(KEY_DOCS_EXCLUDE, TRUE) ELSE @,
        !.currentSheetsEnabled =
           IF Has(KEY_SHEETS_EXCLUDE) THEN readBool(KEY_SHEETS_EXCLUDE, TRUE) ELSE @,
        !.currentSlidesEnabled =
           IF Has(KEY_SLIDES_EXCLUDE) THEN readBool(KEY_SLIDES_EXCLUDE, TRUE) ELSE @]

onChanged(W, changes, area) ==
  IF area # "sync" THEN W
  ELSE IF DOMAIN changes \cap KnownKeys = {} THEN W
  ELSE applyAll(updateOverlayVisibility(ApplyChanges(W, changes)))

\* Change notifications: one key at a time (the popup's switches), or the
\* in-page button's "master on + this surface on".
ChangeInputs ==
  {<<(k :> v), "sync">> :
     k \in {KEY_MASTER, getCurrentAppExcludeKey} \ {"null"}, v \in StoredValues}
  \cup {<<(KEY_MASTER :> "true") @@ (k :> "true"), "sync">> :
          k \in {getCurrentAppExcludeKey} \ {"null"}}
  \cup {<<(KEY_OVERLAY_MASTER :> o), "sync">> : o \in OverlayStoredValues}
  \cup {<<(KEY_MASTER :> "true"), "local">>}

\* The listener gets as far as applyAll.
touched(changes, area) == area = "sync" /\ DOMAIN changes \cap KnownKeys # {}

ChangedWith(changes, area) ==
  /\ TaskBoundary
  /\ \E W \in {onChanged(World, changes, area)} :
       WithinBounds(W) /\ Install(W)
  /\ recomputed' = touched(changes, area)
  /\ UNCHANGED loaded
  /\ Environment

StorageChanged == \E in \in ChangeInputs : ChangedWith(in[1], in[2])

Unschedule(W, h) == [W EXCEPT !.scheduled = @ \ {h}]

\* Pass 2: the animation frame asked for by runDisableRestoreSequence.
RafPass ==
  /\ TaskBoundary
  /\ \E h \in scheduled :
       /\ h[2] = "raf"
       /\ \E W \in {RestorePass(Unschedule(World, h), FALSE)} : Install(W)
  /\ recomputed' = FALSE
  /\ UNCHANGED loaded
  /\ Environment

\* Pass 3: the 60 ms timer; the 0 ms bump removals set before it are older.
Timer1Pass ==
  /\ TaskBoundary
  /\ bumpTimers = <<>>
  /\ \E h \in scheduled :
       /\ h[2] = "t60"
       /\ \E W \in {RestorePass(Unschedule(World, h), FALSE)} : Install(W)
  /\ recomputed' = FALSE
  /\ UNCHANGED loaded
  /\ Environment

\* Pass 4: the 140 ms timer, after the 60 ms timer set in the same task.
Timer2Pass ==
  /\ TaskBoundary
  /\ bumpTimers = <<>>
  /\ \E h \in scheduled :
       /\ h[2] = "t140"
       /\ Handle(h[1], "t60") \notin scheduled
       /\ \E W \in {RestorePass(Unschedule(World, h), TRUE)} : Install(W)
  /\ recomputed' = FALSE
  /\ UNCHANGED loaded
  /\ Environment

\* The bump's setTimeout(..., 0); 0 ms timeouts fire in the order set.
BumpTimeout ==
  /\ TaskBoundary
  /\ bumpTimers # <<>>
  /\ \E W \in {bumpRemoval(World)} :
       bumpTimers' = W.bumpTimers /\ bumpAttr' = W.bumpAttr
  /\ UNCHANGED <<attrs, style, patched, observers, lastActive, disableRaf,
                 disableTimer1, disableTimer2, scheduled,
                 currentMasterEnabled, currentDocsEnabled,
                 currentSheetsEnabled, currentSlidesEnabled, loaded, styleText,
                 currentOverlayMasterEnabled, overlay>>
  /\ recomputed' = FALSE
  /\ Environment

\* The browser delivers the queued records of one connected watcher.
WatcherCallback ==
  /\ \E i \in DOMAIN observers :
       /\ observers[i].recs # {}
       /\ \E W \in {Deliver(World, i)} : Install(W)
  /\ recomputed' = FALSE
  /\ UNCHANGED loaded
  /\ Environment

\* Messages the popup or anyone else may send, by their type (NotAnObject: a
\* message that is no object).
GET_STATUS == "DR_EXCLUDER_GET_STATUS"
NotAnObject == "<not an object>"
Messages == {GET_STATUS, "SOMETHING_ELSE", NotAnObject}
NoResponse == [app |-> "", dynamic |-> FALSE, master |-> FALSE, sent |-> FALSE]

\* Variant: answers with what the controller computed last.
onMessageLastComputed(W, msg) ==
  [world |-> W,
   response |->
     IF msg = GET_STATUS
     THEN [app |-> getCurrentApp, dynamic |-> W.lastActive,
           master |-> getEffectiveExcludeEnabled(W), sent |-> TRUE]
     ELSE NoResponse]

\* The runtime.onMessage listener: the state it leaves and what it answers.
onMessage(W, msg) ==
  [world |-> W,
   response |->
     IF msg = NotAnObject THEN NoResponse
     ELSE IF msg = GET_STATUS
          THEN [app |-> getCurrentApp, dynamic |-> isDarkReaderDynamicLike,
                master |-> W.currentMasterEnabled, sent |-> TRUE]
          ELSE NoResponse]

\* A message arrives (the popup asks for the status).
StatusQuery ==
  /\ \E msg \in Messages : Install(onMessage(World, msg).world)
  /\ UNCHANGED <<loaded, recomputed>>
  /\ Environment

Engine == <<patched, lastActive, disableRaf, disableTimer1, disableTimer2,
            scheduled, bumpAttr, bumpTimers, currentMasterEnabled,
            currentDocsEnabled, currentSheetsEnabled, currentSlidesEnabled,
            loaded, styleText, currentOverlayMasterEnabled, overlay, topFrame>>

\* What the hostile tool writes on an element.
HostileAttrValues == {"b"}
HostileDecl(prop) == IF prop \in HookVars THEN Decl("y", "") ELSE Decl(ValSepia, "")

HostileSetAttribute ==
  /\ hostileWrites < MaxHostileWrites
  /\ \E el \in Elements, n \in SelectorAttrs, v \in HostileAttrValues :
       \E W \in {Notify(World, [World EXCEPT !.attrs[el][n] = v])} :
         attrs' = W.attrs /\ observers' = W.observers
  /\ hostileWrites' = hostileWrites + 1
  /\ UNCHANGED <<style, app, marker, attrs0, style0, storage>>
  /\ UNCHANGED Engine
  /\ recomputed' = FALSE

HostileSetProperty ==
  /\ hostileWrites < MaxHostileWrites
  /\ \E el \in {"target"}, p \in {VarFill, PropFilter} :
       \E W \in {Notify(World, [World EXCEPT !.style[el][p] = HostileDecl(p)])} :
         style' = W.style /\ observers' = W.observers
  /\ hostileWrites' = hostileWrites + 1
  /\ UNCHANGED <<attrs, app, marker, attrs0, style0, storage>>
  /\ UNCHANGED Engine
  /\ recomputed' = FALSE

\* The hostile tool enters or leaves Dynamic mode.
MarkerChange ==
  /\ marker' = ~marker
  /\ UNCHANGED <<attrs, style, observers, app, hostileWrites, attrs0, style0, storage>>
  /\ UNCHANGED Engine
  /\ recomputed' = FALSE

\* The nodes the host document may insert under the root of a watcher: the
\* elements inside it and, in the grid, a wrapper holding the canvas (the
\* other watchers treat a wrapper around the target exactly as the target).
Insertable(kind) ==
  LET inside == Observed(kind) \ {WatchCfg(kind).root}
  IN IF pathIsSheets THEN inside \cup {Wrap} ELSE inside

\* The host document inserts node n again (a childList record for every
\* watcher whose root holds n).
HostInsert ==
  /\ \E n \in Elements \cup {Wrap} :
       /\ \E i \in DOMAIN observers : n \in Insertable(observers[i].kind)
       /\ observers' =
            [i \in DOMAIN observers |->
               IF n \in Insertable(observers[i].kind)
               THEN [observers[i] EXCEPT !.recs = @ \cup {ChildList(n)}]
               ELSE observers[i]]
  /\ UNCHANGED <<attrs, style, app, marker, hostileWrites, attrs0, style0, storage>>
  /\ UNCHANGED Engine
  /\ recomputed' = FALSE

EngineStep ==
  \/ LoadStateAndApply
  \/ RafPass
  \/ Timer1Pass
  \/ Timer2Pass
  \/ BumpTimeout
  \/ WatcherCallback

Next ==
  \/ LoadStateAndApply
  \/ StorageChanged
  \/ RafPass
  \/ Timer1Pass
  \/ Timer2Pass
  \/ BumpTimeout
  \/ WatcherCallback
  \/ HostileSetAttribute
  \/ HostileSetProperty
  \/ MarkerChange
  \/ HostInsert
  \/ StatusQuery

Spec == Init /\ [][Next]_vars

\* When each callback the browser holds is due.
FramePending == TaskBoundary /\ \E h \in scheduled : h[2] = "raf"
Timer1Due ==
  TaskBoundary /\ bumpTimers = <<>> /\ \E h \in scheduled : h[2] = "t60"
Timer2Due ==
  /\ TaskBoundary
  /\ bumpTimers = <<>>
  /\ \E h \in scheduled : h[2] = "t140" /\ Handle(h[1], "t60") \notin scheduled
\* The storage read has not resolved yet.
LoadPending == ~loaded /\ TaskBoundary
\* The browser runs every callback it holds: frames and timers fire, the
\* storage read resolves, queued mutation records are delivered (weak
\* fairness of each callback, its enabling condition written out).
FairSpec ==
  /\ Spec
  /\ WF_vars(BumpTimeout)
  /\ ([]<>~FramePending \/ []<><<RafPass>>_vars)
  /\ ([]<>~Timer1Due \/ []<><<Timer1Pass>>_vars)
  /\ ([]<>~Timer2Due \/ []<><<Timer2Pass>>_vars)
  /\ ([]<>~LoadPending \/ []<><<LoadStateAndApply>>_vars)
  /\ ([]<>~RecordsPending \/ []<><<WatcherCallback>>_vars)

\* ------------------------------------------------------------- pages without hostile writes
\* Inline states of the target when the script starts: its hooks ...
TargetHooks ==
  {[fill |-> Null, color |-> Null, var |-> Unset],
   [fill |-> "a", color |-> Null, var |-> Unset],
   [fill |-> Null, color |-> "", var |-> Unset],
   [fill |-> Null, color |-> Null, var |-> Decl("x", "")],
   [fill |-> "a", color |-> "b", var |-> Decl("x", Important)]}
\* ... and its filters (the root carries the same filter).
TargetFilters ==
  {[filter |-> Unset, webkit |-> Unset],
   [filter |-> Decl(ValBlur, ""), webkit |-> Unset],
   [filter |-> Decl(ValNone, ""), webkit |-> Decl(ValBlur, Important)],
   [filter |-> Decl(ValNone, Important), webkit |-> Unset],
   [filter |-> Decl(ValInvert, Important), webkit |-> Decl(ValNone, Important)]}

StartPage(h, f) ==
  [attrs |-> [NoAttrs EXCEPT !["root"][AttrFill] = "a",
                             !["target"] = (AttrFill :> h.fill) @@
                                           (AttrColor :> h.color)],
   style |-> [NoStyle EXCEPT !["root"][PropFilter] = f.filter,
                             !["target"] = (VarFill :> h.var) @@
                                           (PropFilter :> f.filter) @@
                                           (PropWebkitFilter :> f.webkit) @@
                                           (PropColor :> Unset)]]

InitQuiet ==
  /\ topFrame = FALSE
  /\ \E h \in TargetHooks, f \in TargetFilters :
       attrs = StartPage(h, f).attrs /\ style = StartPage(h, f).style
  /\ InitEngine

NextQuiet ==
  \/ LoadStateAndApply
  \/ StorageChanged
  \/ RafPass
  \/ Timer1Pass
  \/ Timer2Pass
  \/ BumpTimeout
  \/ WatcherCallback
  \/ MarkerChange
  \/ HostInsert
  \/ StatusQuery

\* The engine on a page the hostile tool and the host document do not write.
QuietSpec == InitQuiet /\ [][NextQuiet]_vars

\* ------------------------------------------------------------- the top frame, with the in-page button
\* The frame the overlay asked for: scrubOverlay on the overlay's elements.
OverlayScrub ==
  /\ TaskBoundary
  /\ \E i \in overlay.frames :
       \E W \in {scrubOverlay([World EXCEPT !.overlay.frames = @ \ {i}], i)} :
         Install(W)
  /\ recomputed' = FALSE
  /\ UNCHANGED loaded
  /\ Environment

\* The hostile tool puts a hook on the overlay that is in the document.
HostileHookOverlay ==
  /\ hostileWrites < MaxHostileWrites
  /\ overlay.host # 0
  /\ \E v \in HostileAttrValues :
       attrs' = [attrs EXCEPT ![OverlayEl(overlay.host)][AttrFill] = v]
  /\ hostileWrites' = hostileWrites + 1
  /\ UNCHANGED <<style, observers, app, marker, attrs0, style0, storage>>
  /\ UNCHANGED Engine
  /\ recomputed' = FALSE

InitOverlay ==
  /\ topFrame = TRUE
  /\ attrs = HookedPage.attrs
  /\ style = HookedPage.style
  /\ InitEngine

NextOverlay ==
  \/ LoadStateAndApply
  \/ StorageChanged
  \/ RafPass
  \/ Timer1Pass
  \/ Timer2Pass
  \/ BumpTimeout
  \/ WatcherCallback
  \/ MarkerChange
  \/ HostInsert
  \/ OverlayScrub
  \/ HostileHookOverlay

\* The engine in the top frame, where the in-page button is shown; the
\* hostile tool writes on the button only.
OverlaySpec == InitOverlay /\ [][NextOverlay]_vars

\* ------------------------------------------------------------- the patch operations on their own
\* Inline color and filter of the target when the operations start.
StartColors == {Unset, Decl("red", ""), Decl("red", Important)}
StartFilters == {Unset, Decl(ValBlur, ""), Decl(ValNone, Important)}
\* Property and value of a forced override.
OverrideInputs ==
  {<<PropColor, "blue">>, <<PropColor, "green">>,
   <<PropFilter, ValNone>>, <<PropWebkitFilter, ValNone>>}

InitLedger ==
  /\ topFrame = FALSE
  /\ app = "other"
  /\ marker = FALSE
  /\ attrs = [NoAttrs EXCEPT !["target"][AttrFill] = "a"]
  /\ \E c \in StartColors, f \in StartFilters :
       style = [NoStyle EXCEPT !["target"][PropColor] = c,
                               !["target"][PropFilter] = f,
                               !["target"][VarFill] = Decl("x", Important)]
  /\ InitEngine

\* One patch operation or restore, called on its own.
CallOverride ==
  /\ \E in \in OverrideInputs :
       Install(patchSetStyleImportant(World, "target", in[1], in[2]))
  /\ UNCHANGED <<loaded, recomputed>>
  /\ Environment

CallStrip ==
  /\ Install(stripDarkReaderInline(World, "target"))
  /\ UNCHANGED <<loaded, recomputed>>
  /\ Environment

CallRestore ==
  /\ \E clear \in BOOLEAN : Install(restoreAllPatches(World, clear))
  /\ UNCHANGED <<loaded, recomputed>>
  /\ Environment

NextLedger ==
  \/ CallOverride
  \/ CallStrip
  \/ CallRestore
  \/ HostileSetAttribute
  \/ HostileSetProperty

LedgerSpec == InitLedger /\ [][NextLedger]_vars

\* ------------------------------------------------------------- properties
\* The three inputs of the controller's decision, read from the state.
PerSurfaceFlag ==
  CASE app = "docs" -> currentDocsEnabled
    [] app = "sheets" -> currentSheetsEnabled
    [] app = "slides" -> currentSlidesEnabled
    [] OTHER -> TRUE
AllThreeTrue == currentMasterEnabled /\ PerSurfaceFlag /\ marker

\* The value the surface's fix forces on the filters of el ("": none).
OverrideValue(el) ==
  CASE app = "docs" -> ValNone
    [] app = "sheets" /\ el = "target" -> ValNone
    [] app = "slides" /\ el = "target" -> ValInvert
    [] OTHER -> ""
\* The element started with the engine's own override on prop.
OwnOverrideAtStart(el, prop) ==
  /\ prop \in VOLATILE_OVERRIDE_PROPS
  /\ OverrideValue(el) # ""
  /\ style0[el][prop] = Decl(OverrideValue(el), Important)

\* A disable sequence has run all its passes and nothing superseded it.
SequenceComplete == disableTimer2 # 0 /\ scheduled = {}
\* The 140 ms pass of the current disable sequence is still to come.
ClearingPassPending == Handle(disableTimer2, "t140") \in scheduled

C2_ActiveIffAllThreeTrue ==
  [][recomputed' =>
       /\ lastActive' = AllThreeTrue'
       /\ AllThreeTrue' =>
            /\ app # "other" => observers' # <<>>
            /\ app \in {"sheets", "slides"} =>
                 \A el \in Elements :
                   attrs'[el][AttrFill] = Null /\ style'[el][VarFill] = Unset
       /\ ~AllThreeTrue' =>
            /\ observers' = <<>>
            /\ patched' \in {patched, EmptyLedger}
            /\ \A el \in Elements :
                 /\ \A n \in HookAttrs : attrs[el][n] # Null => attrs'[el][n] # Null
                 /\ \A p \in HookVars : style[el][p] # Unset => style'[el][p] # Unset]_vars

\* The engine is active on an editor surface: watchers connected, hooks held
\* by the ledger.
C2_Witness ==
  /\ loaded /\ lastActive /\ AllThreeTrue
  /\ app = "slides"
  /\ Len(observers) = 3
  /\ "root" \in DOMAIN patched /\ "target" \in DOMAIN patched

\* C3: a transition from active to inactive runs an immediate non-clearing
\* pass and leaves exactly the frame, 60 ms and 140 ms passes pending; the
\* ledger keeps its entries until the 140 ms pass and is empty after it.
C3_FourPassesLedgerKeptUntilLast ==
  [][/\ (recomputed' /\ lastActive /\ ~lastActive') =>
          /\ patched' = patched
          /\ scheduled' = {Handle(disableRaf', "raf"),
                           Handle(disableTimer1', "t60"),
                           Handle(disableTimer2', "t140")}
     /\ (ClearingPassPending /\ ClearingPassPending') => patched' = patched
     /\ Timer2Pass => patched' = EmptyLedger]_vars

\* C4: within a disable sequence no non-clearing pass runs after the clearing
\* pass: when the frame pass or the 60 ms pass runs, the 140 ms pass is still
\* to come.
C4_ClearingPassIsLast ==
  [][(RafPass \/ Timer1Pass) => ClearingPassPending]_vars

\* C5: pending disable passes belong to one sequence, the one whose handles
\* the controller remembers, and none is pending while the controller is
\* active.
C5_PendingPassesOfOneSequence ==
  /\ lastActive => scheduled = {}
  /\ \A h \in scheduled :
       h[1] = (CASE h[2] = "raf" -> disableRaf
                 [] h[2] = "t60" -> disableTimer1
                 [] OTHER -> disableTimer2)

\* The controller went active again while the bump of the sequence it
\* cancelled was still on the document element.
C5_Witness ==
  lastActive /\ bumpTimers # <<>> /\ bumpAttr # 0 /\ patched # EmptyLedger

\* C6: an applyAll that finds the controller inactive and leaves it inactive
\* keeps the ledger's entries, also while disable passes are pending.
C6_InactiveToInactiveKeepsLedger ==
  [][(recomputed' /\ ~lastActive /\ ~lastActive') => patched' = patched]_vars

\* What C7 compares: DOM, ledger, connected watchers, pending passes.
Outcome(W) == <<W.attrs, W.style, W.patched, W.observers, W.scheduled>>

\* C7: applyAll called a second time with the same settings and marker
\* leaves the DOM, the ledger, the watchers and the pending passes as the
\* first call left them.
C7_ApplyAllIdempotent ==
  \A in \in ChangeInputs :
    LET once == onChanged(World, in[1], in[2])
    IN Outcome(applyAll(once)) = Outcome(once)

\* C8: when the marker disappears while the controller is active it becomes
\* inactive, and when the marker appears while the flags are true it becomes
\* active.
C8_ReactsToMarker ==
  /\ (loaded /\ lastActive /\ ~marker) ~> (~lastActive \/ marker)
  /\ (loaded /\ ~lastActive /\ AllThreeTrue) ~> (lastActive \/ ~AllThreeTrue)

\* C9: the non-clearing restore run twice gives the DOM and the ledger that
\* running it once gives.
C9_NonClearingRestoreIdempotent ==
  LET once == restoreAllPatches(World, FALSE)
      twice == restoreAllPatches(once, FALSE)
  IN /\ twice.attrs = once.attrs
     /\ twice.style = once.style
     /\ twice.patched = once.patched

\* The ledger holds entries and a restore changes both attributes and styles.
C9_Witness ==
  /\ patched # EmptyLedger
  /\ restoreAllPatches(World, FALSE).attrs # attrs
  /\ restoreAllPatches(World, FALSE).style # style

\* C10: for an element carrying a hook attribute with value v, stripping the
\* element and then running a clearing restore leaves the attribute equal to
\* v and the ledger without an entry for the element.
C10_AttributeRoundTrip ==
  \A el \in Elements, n \in HookAttrs :
    attrs[el][n] # Null =>
      LET R == restoreAllPatches(stripDarkReaderInline(World, el), TRUE)
      IN R.attrs[el][n] = attrs[el][n] /\ el \notin DOMAIN R.patched

\* The hostile tool has put a hook back with a new value on an element whose
\* ledger entry still holds the old one.
C10_Witness ==
  \E el \in Elements, n \in HookAttrs :
    /\ attrs[el][n] # Null
    /\ el \in DOMAIN patched
    /\ n \in DOMAIN patched[el].attrs
    /\ patched[el].attrs[n] # attrs[el][n]

\* C11: whatever the ledger already holds for an element, stripping it records
\* the value each hook attribute carries now and the value and priority each
\* hook variable carries now, and a following restore writes exactly those.
C11_LatestValueOnRemoval ==
  \A el \in Elements :
    LET T == stripDarkReaderInline(World, el)
        R == restoreAllPatches(T, FALSE)
    IN /\ \A n \in HookAttrs :
            attrs[el][n] # Null =>
              /\ T.attrs[el][n] = Null
              /\ T.patched[el].attrs[n] = attrs[el][n]
              /\ R.attrs[el][n] = attrs[el][n]
       /\ \A p \in HookVars :
            style[el][p] # Unset =>
              /\ T.style[el][p] = Unset
              /\ T.patched[el].styles[p] = StyleEntry(style[el][p])
              /\ R.style[el][p] = style[el][p]

\* The hostile tool has injected a hook variable again, with another value
\* and priority than the ledger recorded at the previous strip.
C11_Witness ==
  \E el \in Elements, p \in HookVars :
    /\ style[el][p] # Unset
    /\ el \in DOMAIN patched
    /\ p \in DOMAIN patched[el].styles
    /\ patched[el].styles[p].value # style[el][p].value
    /\ patched[el].styles[p].priority # style[el][p].priority

\* What a restore writes for a recorded style entry.
Restored(entry) ==
  IF entry.had THEN Decl(entry.value, entry.priority) ELSE Unset

\* C12: for the property color (outside the volatile set) an override
\* writes the ledger entry only when the element has none for it, recording
\* the inline value and priority found; an override on an element that has
\* the entry leaves it unchanged, and restore puts back the original inline
\* value with its original priority.
C12_FirstValueOnOverride ==
  \A el \in Elements, v \in {"blue", "green"} :
    LET has == el \in DOMAIN patched /\ PropColor \in DOMAIN patched[el].styles
        first == IF has THEN patched[el].styles[PropColor]
                 ELSE StyleEntry(style[el][PropColor])
        T == patchSetStyleImportant(World, el, PropColor, v)
        R == restoreAllPatches(T, TRUE)
    IN /\ T.style[el][PropColor] = Decl(v, Important)
       /\ T.patched[el].styles[PropColor] = first
       /\ R.style[el][PropColor] = Restored(first)
       /\ R.style[el][PropColor] = style0[el][PropColor]

\* An element whose color started as `red` carries the engine's
\* `blue !important` and a ledger entry for color.
C12_Witness ==
  /\ style0["target"][PropColor] = Decl("red", "")
  /\ style["target"][PropColor] = Decl("blue", Important)
  /\ "target" \in DOMAIN patched
  /\ PropColor \in DOMAIN patched["target"].styles

\* C13: when an element has no ledger entry for a volatile property and its
\* inline value is already the override value with important priority, the
\* override records the baseline "absent" (no value, no priority, had =
\* FALSE), and a restore leaves the element without an inline value for the
\* property.
C13_VolatileGuard ==
  \A el \in Elements, prop \in VOLATILE_OVERRIDE_PROPS,
     value \in {ValNone, ValInvert} :
    (/\ ~(el \in DOMAIN patched /\ prop \in DOMAIN patched[el].styles)
     /\ style[el][prop] = Decl(value, Important)) =>
      LET T == patchSetStyleImportant(World, el, prop, value)
          R == restoreAllPatches(T, TRUE)
      IN /\ T.patched[el].styles[prop] =
              [value |-> "", priority |-> "", had |-> FALSE]
         /\ T.style[el][prop] = Decl(value, Important)
         /\ R.style[el][prop] = Unset

\* The grid's fix has overridden the filter of a canvas that came with
\* `filter: none !important`: the ledger holds the baseline "absent".
C13_Witness ==
  /\ app = "sheets" /\ lastActive
  /\ style0["target"][PropFilter] = Decl(ValNone, Important)
  /\ style["target"][PropFilter] = Decl(ValNone, Important)
  /\ "target" \in DOMAIN patched
  /\ PropFilter \in DOMAIN patched["target"].styles
  /\ ~patched["target"].styles[PropFilter].had

\* The ledger holds a value for attribute n of el.
Recorded(el, n) == el \in DOMAIN patched /\ n \in DOMAIN patched[el].attrs

C15_InsertedSubtreeStripped ==
  \A i \in DOMAIN observers :
    \A r \in observers[i].recs :
      (/\ observers[i].kind \in {"grid", "stage"}
       /\ r.type = "childList"
       /\ stillEnabled(World)) =>
        LET T == Deliver(World, i)
        IN \A e \in Subtree(r.node) :
             /\ \A n \in HookAttrs : T.attrs[e][n] = Null
             /\ \A p \in HookVars : T.style[e][p] = Unset

\* C16: a message changes no state, and the answer to a status query is the
\* surface of the current path, the marker as it is on the document element
\* now, and the in-memory master flag; other messages get no answer.
C16_StatusQueryReadsOnly ==
  \A msg \in Messages :
    LET r == onMessage(World, msg)
    IN /\ r.world = World
       /\ r.response =
            IF msg = GET_STATUS
            THEN [app |-> app, dynamic |-> marker,
                  master |-> currentMasterEnabled, sent |-> TRUE]
            ELSE NoResponse

\* The marker went away after the controller became active and the popup
\* asks before anything else has run: the answer reports the marker as it is
\* now, not what the controller computed.
C16_Witness ==
  /\ loaded /\ lastActive /\ ~marker
  /\ app = "slides"
  /\ onMessage(World, GET_STATUS).response =
       [app |-> "slides", dynamic |-> FALSE, master |-> TRUE, sent |-> TRUE]

\* The ledger holds a baseline for property prop of el.
Baseline(el, prop) == el \in DOMAIN patched /\ prop \in DOMAIN patched[el].styles

\* C17: a baseline recorded for filter or -webkit-filter of an element is
\* not changed by any later step that keeps it in the ledger, whatever the
\* hostile tool wrote on the element in between.
C17_VolatileBaselineKept ==
  [][\A el \in Elements, prop \in VOLATILE_OVERRIDE_PROPS :
       (Baseline(el, prop) /\ Baseline(el, prop)') =>
         patched'[el].styles[prop] = patched[el].styles[prop]]_vars

\* C18: a step that ends with the master flag, the flag of the surface or
\* the marker false adds no element and no recorded attribute or property
\* to the ledger.
C18_LedgerGrowsOnlyWhileActive ==
  [][~AllThreeTrue' =>
       /\ DOMAIN patched' \subseteq DOMAIN patched
       /\ \A el \in DOMAIN patched' :
            /\ DOMAIN patched'[el].attrs \subseteq DOMAIN patched[el].attrs
            /\ DOMAIN patched'[el].styles \subseteq DOMAIN patched[el].styles]_vars

C20_PassKeepsNewerValue ==
  [][(RafPass \/ Timer1Pass \/ Timer2Pass) =>
       \A el \in Elements :
         /\ \A n \in HookAttrs :
              (Recorded(el, n) /\ attrs[el][n] # patched[el].attrs[n]) =>
                attrs'[el][n] = attrs[el][n]
         /\ \A p \in HookVars :
              (Baseline(el, p)
               /\ style[el][p] # Restored(patched[el].styles[p])) =>
                style'[el][p] = style[el][p]]_vars

\* Overlay i was built and is no longer in the document.
Detached(W, i) == i <= W.overlay.made /\ W.overlay.host # i

\* C21: no step writes an attribute or a style property on a ledgered
\* element that has been removed from the document: a hook attribute or
\* hook variable a removed overlay does not carry stays absent.
C21_RestoreSkipsDetached ==
  [][\A i \in 1..MaxOverlays :
       (Detached(World, i) /\ Detached(World, i)'
        /\ OverlayEl(i) \in DOMAIN patched) =>
         /\ \A n \in HookAttrs :
              attrs[OverlayEl(i)][n] = Null => attrs'[OverlayEl(i)][n] = Null
         /\ \A p \in HookVars :
              style[OverlayEl(i)][p] = Unset =>
                style'[OverlayEl(i)][p] = Unset]_vars

\* C22: the scrub frame of an overlay that has been removed from the
\* document changes neither the overlay's elements nor the ledger.
C22_DetachedUntouched ==
  [][OverlayScrub =>
       \A i \in overlay.frames \ overlay'.frames :
         Detached(World, i) =>
           attrs' = attrs /\ style' = style /\ patched' = patched]_vars

\* ------------------------------------------------------------- DOM calls that throw
\* What an operation leaves when DOM calls may throw: the state, and whether
\* an exception left the operation.
Returned(W) == [world |-> W, thrown |-> FALSE]
Thrown(W) == [world |-> W, thrown |-> TRUE]

\* The writes of a restore pass: <<element, attribute or property>>.
RestoreWrites(S) ==
  UNION {{<<el, n>> : n \in DOMAIN S.patched[el].attrs
                           \cup DOMAIN S.patched[el].styles} :
           el \in DOMAIN S.patched}

\* Variant: the writes of an element are not guarded one by one (a write
\* that throws, here the element's first, ends the pass).
RestoreElementUnguarded(S, el, failing) ==
  IF \E w \in failing : w[1] = el THEN Thrown(S)
  ELSE Returned(RestoreElement(S, el))

\* The restore of one element where the writes in `failing` throw: each
\* write has a try / catch of its own.
RestoreElementFailing(S, el, failing) ==
  LET rec == S.patched[el]
      A == [S EXCEPT !.attrs[el] =
              [n \in HookAttrs |->
                 IF n \in DOMAIN rec.attrs /\ <<el, n>> \notin failing
                 THEN rec.attrs[n] ELSE @[n]]]
      RestoreProp(T, prop) ==
        LET s == rec.styles[prop]
        IN IF <<el, prop>> \in failing THEN T
           ELSE IF ~s.had THEN [T EXCEPT !.style[el][prop] = Unset]
           ELSE SetProperty(T, el, prop, s.value, s.priority)
  IN Returned(FoldSet(RestoreProp, A, DOMAIN rec.styles))

\* restoreAllPatches where the writes in `failing` throw.
restoreAllPatchesFailing(S, clear, failing) ==
  LET Restore(out, el) ==
        IF out.thrown THEN out
        ELSE RestoreElementFailing(out.world, el, failing)
  IN IF DOMAIN S.patched = {} THEN Returned(S)
     ELSE LET R == FoldSet(Restore, Returned(S), DOMAIN S.patched)
          IN IF R.thrown THEN R
             ELSE IF clear THEN Returned([R.world EXCEPT !.patched = EmptyLedger])
             ELSE R

\* C23: when one write of a restore pass throws, no exception leaves the
\* pass, every other recorded attribute and style property of every
\* ledgered element is restored as without the failure, the failed one is
\* left as it was, and a clearing pass still empties the ledger.
C23_RestoreFailureIsolated ==
  \A clear \in BOOLEAN :
    \A N \in {restoreAllPatches(World, clear)} :
       /\ restoreAllPatchesFailing(World, clear, {}) = Returned(N)
       /\ \A w \in RestoreWrites(World) :
            \A F \in {restoreAllPatchesFailing(World, clear, {w})} :
               /\ ~F.thrown
               /\ F.world.patched = N.patched
               /\ clear => F.world.patched = EmptyLedger
               /\ \A el \in Nodes :
                    /\ \A n \in HookAttrs :
                         F.world.attrs[el][n] =
                           IF <<el, n>> = w THEN attrs[el][n] ELSE N.attrs[el][n]
                    /\ \A p \in Props :
                         F.world.style[el][p] =
                           IF <<el, p>> = w THEN style[el][p] ELSE N.style[el][p]

\* Both elements are in the ledger, the target with two attributes and two
\* style properties that a restore would write back, and the write of one
\* of them throws: the pass changes the page, and not as it would without
\* the failure.
C23_Witness ==
  /\ DOMAIN patched = Elements
  /\ DOMAIN patched["target"].attrs = HookAttrs
  /\ {VarFill, PropFilter} \subseteq DOMAIN patched["target"].styles
  /\ attrs["root"][AttrFill] = Null
  /\ LET N == restoreAllPatches(World, TRUE)
         F == restoreAllPatchesFailing(World, TRUE, {<<"target", VarFill>>})
     IN /\ F.world # N
        /\ F.world.attrs["root"] # attrs["root"]
        /\ F.world.style["target"][PropFilter] # style["target"][PropFilter]
        /\ F.world.style["target"][VarFill] = style["target"][VarFill]

\* patchRemoveAttr where el.removeAttribute throws on the elements in
\* `failing`: the value is in the ledger by then, the attribute stays and
\* the exception leaves the operation (it has no try / catch).
patchRemoveAttrFailing(S, el, name, failing) ==
  LET v == S.attrs[el][name]
  IN IF v = Null THEN Returned(S)
     ELSE LET R == ensurePatchRecord(S, el)
              rec == R.patched[el]
              L == [R EXCEPT !.patched[el] =
                      [rec EXCEPT !.attrs = (name :> v) @@ rec.attrs]]
          IN IF el \in failing THEN Thrown(L)
             ELSE Returned([L EXCEPT !.attrs[el][name] = Null])

stripDarkReaderInlineFailing(S, el, failing) ==
  LET RemoveAttr(out, name) ==
        IF out.thrown THEN out
        ELSE patchRemoveAttrFailing(out.world, el, name, failing)
      A == FoldSet(RemoveAttr, Returned(S),
                   {n \in HookAttrs : S.attrs[el][n] # Null})
      RemoveVar(T, prop) == patchRemoveStyleProp(T, el, prop)
  IN IF A.thrown THEN A
     ELSE Returned(FoldSet(RemoveVar, A.world,
                           {p \in HookVars : A.world.style[el][p] # Unset}))

stripDarkReaderInlineInRootFailing(S, root, svgOnly, failing) ==
  LET Strip(out, el) ==
        IF out.thrown THEN out
        ELSE stripDarkReaderInlineFailing(out.world, el, failing)
  IN IF svgOnly
     THEN LET R == IF root \in Nodes /\ IsSvg(root)
                   THEN stripDarkReaderInlineFailing(S, root, failing)
                   ELSE Returned(S)
          IN FoldSet(Strip, R, {e \in Subtree(root) \ {root} : IsSvg(e)})
     ELSE LET R == IF root \in Nodes
                   THEN stripDarkReaderInlineFailing(S, root, failing)
                   ELSE Returned(S)
          IN FoldSet(Strip, R,
                     {e \in Subtree(root) \ {root} :
                        SelectorMatches(R.world, e)})

ReconcileRecordFailing(W, cfg, r, failing) ==
  IF r.type = "childList"
  THEN LET T == IF cfg.svgOnly
                THEN IF HoldsSvg(r.node)
                     THEN stripDarkReaderInlineInRootFailing(W, r.node, TRUE, failing)
                     ELSE Returned(W)
                ELSE stripDarkReaderInlineInRootFailing(W, r.node, FALSE, failing)
       IN IF ~T.thrown /\ cfg.alsoCanvas
          THEN Returned(clearCanvasFilters(T.world, r.node)) ELSE T
  ELSE IF r.type = "attributes" /\ cfg.watchAttributes
          /\ (r.attributeName = "style" \/ r.attributeName \in HookAttrs)
  THEN LET T == IF cfg.svgOnly
                THEN IF IsSvg(r.node)
                     THEN stripDarkReaderInlineFailing(W, r.node, failing)
                     ELSE Returned(W)
                ELSE stripDarkReaderInlineFailing(W, r.node, failing)
       IN IF ~T.thrown /\ cfg.alsoCanvas /\ IsCanvas(r.node)
          THEN Returned(clearCanvasFilters(T.world, r.node)) ELSE T
  ELSE Returned(W)

\* A pass of the callback as it ends: what it did and the guard flag.
Pass(out, cleaning) ==
  [world |-> out.world, thrown |-> out.thrown, cleaning |-> cleaning]

\* Variant: the guard flag is reset at the end of the try block (no
\* finally): a pass that throws leaves it set.
LeavePassWithoutFinally(out) == Pass(out, out.thrown)

\* finally { cleaning = false; }
LeavePass(out) == Pass(out, FALSE)

\* The callback of watchMutations for one batch, with its guard flag
\* `cleaning`, where el.removeAttribute throws on the elements in `failing`:
\* the try has a finally and no catch.
watchMutationsCallbackFailing(W, kind, mutations, cleaning, failing) ==
  LET cfg == WatchCfg(kind)
      Step(out, r) ==
        IF out.thrown THEN out
        ELSE ReconcileRecordFailing(out.world, cfg, r, failing)
  IN IF ~stillEnabled(W) THEN Pass(Returned(W), cleaning)
     ELSE IF cleaning THEN Pass(Returned(W), cleaning)
     ELSE LET R == FoldSet(Step, Returned(W), mutations)
          IN LeavePass(IF ~R.thrown /\ kind = "film"
                       THEN Returned(applySlidesThumbInversion(R.world, Film, TRUE))
                       ELSE R)

\* The reconciler watchers that have a batch to deliver.
Reconcilers ==
  {i \in DOMAIN observers :
     observers[i].kind \in {"grid", "stage", "film"} /\ observers[i].recs # {}}

\* C24: when el.removeAttribute throws on one element while a reconciler
\* processes a batch, no exception leaves the watcher callback and every
\* other element ends as it does without the failure.
C24_PatchFailureIsolated ==
  \A i \in Reconcilers : \A el \in Elements :
    LET o == observers[i]
        N == watchMutationsCallback(World, o.kind, o.recs)
        F == watchMutationsCallbackFailing(World, o.kind, o.recs, FALSE, {el})
    IN /\ ~F.thrown
       /\ \A e \in Elements \ {el} :
            F.world.attrs[e] = N.attrs[e] /\ F.world.style[e] = N.style[e]

\* C30: a reconciliation pass is never re-entered and its guard flag is
\* never left set: a callback that finds the flag set does nothing, and a
\* pass that starts with the flag clear ends with the flag clear, also when
\* an exception leaves it, so the batch delivered next is processed as by a
\* watcher that has not run before.
C30_GuardNeverStuck ==
  \A i \in Reconcilers : \A failing \in SUBSET Elements :
    LET o == observers[i]
        nested == watchMutationsCallbackFailing(World, o.kind, o.recs, TRUE, failing)
    IN /\ nested = Pass(Returned(World), TRUE)
       /\ \A F \in {watchMutationsCallbackFailing(World, o.kind, o.recs,
                                                  FALSE, failing)} :
            /\ ~F.cleaning
            /\ watchMutationsCallbackFailing(F.world, o.kind, o.recs,
                                             F.cleaning, {}).world
                 = watchMutationsCallback(F.world, o.kind, o.recs)

\* A reconciler has a batch whose pass, while the engine is active, ends
\* with an exception (removeAttribute throws on the root) after it has
\* written the ledger.
C30_Witness ==
  \E i \in Reconcilers :
    \E F \in {watchMutationsCallbackFailing(World, observers[i].kind,
                                            observers[i].recs, FALSE, {"root"})} :
       /\ stillEnabled(World)
       /\ F.thrown
       /\ ~F.cleaning
       /\ F.world.patched # patched

\* The connected watchers of one kind (one kind per observed root).
Connected(kind) == {i \in DOMAIN observers : observers[i].kind = kind}

\* C25: no root (grid container, stage, filmstrip) is observed by two
\* connected reconciler watchers.
C25_OneWatcherPerRoot ==
  \A kind \in {"grid", "stage", "film"} : Cardinality(Connected(kind)) <= 1

\* C26: applyAll computing inactive leaves no watcher connected (it
\* disconnects them before its restore pass), and whenever the state
\* computed last is inactive no watcher is connected.
C26_InactiveMeansNoWatchers ==
  /\ ~lastActive => observers = <<>>
  /\ ~ComputeActive(World) =>
       \A A \in {applyAll(World)} :
          /\ A.observers = <<>>
          /\ ~A.lastActive

\* The engine was active on a Slides page (three watchers) and has just
\* been disabled: the immediate pass has run, the later passes are pending,
\* and no watcher is connected.
C26_Witness ==
  /\ app = "slides"
  /\ loaded /\ ~lastActive
  /\ Cardinality(scheduled) = 3
  /\ patched # EmptyLedger
  /\ observers = <<>>

\* C27: a batch delivered to a watcher of any kind (reconciler, Docs fix
\* watcher, boot watcher) while a flag or the marker makes the engine
\* inactive only empties the watcher's queue: the page, the ledger, the
\* list of watchers and everything else stay as they are.
C27_InactiveBatchIgnored ==
  \A i \in DOMAIN observers :
    (observers[i].recs # {} /\ ~stillEnabled(World)) =>
      Deliver(World, i) = [World EXCEPT !.observers[i].recs = {}]

\* The marker went away while the engine was active, and a reconciler holds
\* a record for an element that carries a hook: processed, the batch would
\* strip it.
C27_Witness ==
  /\ lastActive /\ ~marker /\ currentMasterEnabled
  /\ \E i \in Reconcilers :
       \E r \in observers[i].recs :
         /\ r.node \in Elements
         /\ attrs[r.node][AttrFill] \in HostileAttrValues

\* ------------------------------------------------------------- attribute records and the filmstrip
\* An attribute that is neither style nor a hook attribute.
OtherAttr == "class"

\* The hostile tool puts a hook on a filmstrip element (an attribute record
\* for the watchers that observe it).
FilmSetAttribute ==
  /\ pathIsSlides
  /\ hostileWrites < MaxHostileWrites
  /\ \E el \in FilmEls, v \in HostileAttrValues :
       \E W \in {Notify(World, [World EXCEPT !.attrs[el][AttrFill] = v])} :
         attrs' = W.attrs /\ observers' = W.observers
  /\ hostileWrites' = hostileWrites + 1
  /\ UNCHANGED <<style, app, marker, attrs0, style0, storage>>
  /\ UNCHANGED Engine
  /\ recomputed' = FALSE

\* The host document inserts a filmstrip element as a copy that already
\* carries a hook of the hostile tool (a childList record for the watchers
\* whose root holds it, no attribute record).
FilmInsert ==
  /\ pathIsSlides
  /\ hostileWrites < MaxHostileWrites
  /\ \E n \in FilmEls \cup {"target"}, v \in HostileAttrValues :
       /\ \E i \in DOMAIN observers : n \in Observed(observers[i].kind)
       /\ attrs' = [attrs EXCEPT ![n][AttrFill] = v]
       /\ observers' =
            [i \in DOMAIN observers |->
               IF n \in Observed(observers[i].kind)
               THEN [observers[i] EXCEPT !.recs = @ \cup {ChildList(n)}]
               ELSE observers[i]]
  /\ hostileWrites' = hostileWrites + 1
  /\ UNCHANGED <<style, app, marker, attrs0, style0, storage>>
  /\ UNCHANGED Engine
  /\ recomputed' = FALSE

\* The host document changes another attribute of the canvas, of the
\* thumbnail svg or of its holder (an attribute record for the watchers
\* that observe attributes on it).
HostSetClass ==
  /\ \E el \in PageEls \cap {"target", Holder} :
       LET Sees(o) == WatchCfg(o.kind).watchAttributes /\ el \in Observed(o.kind)
       IN /\ \E i \in DOMAIN observers : Sees(observers[i])
          /\ observers' =
               [i \in DOMAIN observers |->
                  IF Sees(observers[i])
                  THEN [observers[i] EXCEPT
                          !.recs = @ \cup {Attributes(el, OtherAttr)}]
                  ELSE observers[i]]
  /\ UNCHANGED <<attrs, style, app, marker, hostileWrites, attrs0, style0, storage>>
  /\ UNCHANGED Engine
  /\ recomputed' = FALSE

\* A Sheets or Slides page; on Slides the filmstrip elements are hooked too.
InitFilm ==
  /\ topFrame = FALSE
  /\ app \in {"sheets", "slides"}
  /\ attrs = [HookedPage.attrs EXCEPT ![Glyph][AttrFill] = "a",
                                      ![Holder][AttrFill] = "a"]
  /\ style = HookedPage.style
  /\ InitEngine

NextFilm ==
  \/ LoadStateAndApply
  \/ StorageChanged
  \/ RafPass
  \/ Timer1Pass
  \/ Timer2Pass
  \/ BumpTimeout
  \/ WatcherCallback
  \/ MarkerChange
  \/ HostileSetAttribute
  \/ HostileSetProperty
  \/ FilmSetAttribute
  \/ FilmInsert
  \/ HostSetClass

\* The engine on a Sheets or Slides page whose attributes change: hooks and
\* other attributes, on the elements of the grid, the stage and the filmstrip.
FilmSpec == InitFilm /\ [][NextFilm]_vars

\* Record r reports a change of the style attribute or of a hook attribute.
HookRecord(r) ==
  r.type = "attributes"
  /\ (r.attributeName = "style" \/ r.attributeName \in HookAttrs)
\* Record r reports a change of another attribute.
OtherRecord(r) == r.type = "attributes" /\ ~HookRecord(r)
\* Element el carries no hook attribute and no hook variable in state T.
Unhooked(T, el) ==
  /\ \A n \in HookAttrs : T.attrs[el][n] = Null
  /\ \A p \in HookVars : T.style[el][p] = Unset

\* C28 (as stated): while the engine is active, the batch of any watcher
\* that observes attributes leaves the target of every record of the style
\* attribute or a hook attribute without hook attribute and hook variable,
\* and a record of another attribute writes neither the page nor the ledger.
C28_AttributeRecordStripsTarget ==
  \A i \in Reconcilers :
    stillEnabled(World) =>
      LET o == observers[i]
          T == Deliver(World, i)
      IN \A r \in o.recs :
           /\ HookRecord(r) => Unhooked(T, r.node)
           /\ OtherRecord(r) => ReconcileRecord(World, WatchCfg(o.kind), r) = World

\* C28 (amended): while the engine is active, the batch of a watcher that
\* observes attributes leaves the target of every record of the style
\* attribute or a hook attribute without hook attribute and hook variable,
\* unless the watcher is in SVG-only mode and the target is neither an svg
\* element nor inside one: such a record, like a record of any other
\* attribute, starts no strip. A batch of such records only changes no
\* attribute and no hook variable, and nothing at all unless the watcher
\* is the filmstrip's, whose follow-up overrides the thumbnails' filters
\* after every batch.
C28_AttributeRecordStripsWatchedTarget ==
  \A i \in Reconcilers :
    stillEnabled(World) =>
      LET o == observers[i]
          cfg == WatchCfg(o.kind)
          T == Deliver(World, i)
          Skipped(r) == OtherRecord(r)
                        \/ (HookRecord(r) /\ cfg.svgOnly /\ ~IsSvg(r.node))
      IN /\ \A r \in o.recs :
              /\ (HookRecord(r) /\ ~Skipped(r)) => Unhooked(T, r.node)
              /\ Skipped(r) => ReconcileRecord(World, cfg, r) = World
         /\ (\A r \in o.recs : Skipped(r)) =>
              /\ T.attrs = attrs
              /\ \A el \in Nodes, p \in Props \ VOLATILE_OVERRIDE_PROPS :
                   T.style[el][p] = style[el][p]
              /\ o.kind # "film" => T.style = style /\ T.patched = patched
              /\ o.kind = "film" =>
                   /\ T.style = applySlidesThumbInversion(World, Film, TRUE).style
                   /\ T.patched = applySlidesThumbInversion(World, Film, TRUE).patched

\* While the engine is active the filmstrip watcher holds a record for a
\* hook the hostile tool put on the element inside the thumbnail svg, and
\* the grid watcher of a Sheets page can hold one for the canvas.
C28_Witness ==
  /\ stillEnabled(World)
  /\ \E i \in Reconcilers :
       /\ observers[i].kind = "film"
       /\ Attributes(Glyph, AttrFill) \in observers[i].recs
       /\ Attributes(Holder, OtherAttr) \in observers[i].recs
       /\ attrs[Glyph][AttrFill] \in HostileAttrValues
       /\ Unhooked(Deliver(World, i), Glyph)

\* C29: while the engine is active, the batch in which the filmstrip
\* watcher (SVG-only mode) is told of an inserted node leaves every element
\* of the inserted subtree that is an svg element or lies inside one
\* without hook attribute and hook variable, and leaves every element
\* outside any svg as it was.
C29_InsertedSvgStripped ==
  \A i \in Reconcilers :
    (observers[i].kind = "film" /\ stillEnabled(World)) =>
      LET T == Deliver(World, i)
      IN /\ \A r \in observers[i].recs :
              r.type = "childList" =>
                \A e \in Subtree(r.node) : IsSvg(e) => Unhooked(T, e)
         /\ \A e \in PageEls :
              ~IsSvg(e) => T.attrs[e] = attrs[e] /\ T.style[e] = style[e]

\* The longest chain of watcher callbacks followed from one state.
MaxChain == 6

RECURSIVE Quiesces(_, _)
\* Whatever watcher runs next, at most k callbacks in a row empty W's queues.
Quiesces(W, k) ==
  \A i \in DOMAIN W.observers :
    \/ W.observers[i].recs = {}
    \/ k > 0 /\ Quiesces(Deliver(W, i), k - 1)

\* C31: the chain of batches the engine's own writes cause is finite: from
\* every reachable state, when nothing but watcher callbacks runs (no write
\* of the hostile tool, no change of the host document), every order of
\* callbacks empties all queues after at most MaxChain callbacks.
C31_ReconcilerQuiesces == Quiesces(World, MaxChain)

\* While the engine is active a reconciler holds a record of a write of the
\* engine itself: a hook attribute it stripped and recorded.
C31_Witness ==
  /\ stillEnabled(World)
  /\ \E i \in Reconcilers :
       \E r \in observers[i].recs :
         /\ r.type = "attributes" /\ r.attributeName \in HookAttrs
         /\ attrs[r.node][r.attributeName] = Null
         /\ r.node \in DOMAIN patched
         /\ r.attributeName \in DOMAIN patched[r.node].attrs

\* ---------------------------------------------------------------------
\* The order of the calls inside one batch.

\* One call a batch makes: the handling of a record or the follow-up
\* callback, with the number of records handled before it.
Call(op, seen) == [op |-> op, seen |-> seen]

\* A batch in progress: the page so far and the calls made so far.
Running(W, calls) == [world |-> W, calls |-> calls]

Handled(calls) == Cardinality({k \in DOMAIN calls : calls[k].op = "record"})

\* Variant: the follow-up callback is called inside the loop, once after
\* every record.
watchMutationsCallbackFollowingEach(W, kind, mutations) ==
  LET cfg == WatchCfg(kind)
      Step(run, r) ==
        LET T == ReconcileRecord(run.world, cfg, r)
            C == Append(run.calls, Call("record", Handled(run.calls)))
        IN IF kind = "film"
           THEN Running(applySlidesThumbInversion(T, Film, TRUE),
                        Append(C, Call("onMutations", Handled(C))))
           ELSE Running(T, C)
  IN IF ~stillEnabled(W) THEN Running(W, <<>>)
     ELSE FoldSet(Step, Running(W, <<>>), mutations)

\* The callback of watchMutations for one batch with the calls it makes in
\* their order: the loop over the records, then onMutations(mutations) if
\* the watcher was given one.
watchMutationsCallbackCalls(W, kind, mutations) ==
  LET cfg == WatchCfg(kind)
      Step(run, r) ==
        Running(ReconcileRecord(run.world, cfg, r),
                Append(run.calls, Call("record", Handled(run.calls))))
  IN IF ~stillEnabled(W) THEN Running(W, <<>>)
     ELSE LET R == FoldSet(Step, Running(W, <<>>), mutations)
          IN IF kind = "film"
             THEN Running(applySlidesThumbInversion(R.world, Film, TRUE),
                          Append(R.calls, Call("onMutations", Handled(R.calls))))
             ELSE R

\* C32: in one reconciliation batch the follow-up callback runs at most
\* once and only after the strip and override operations of all the batch's
\* records; the batch leaves the page as the watcher callback does.
C32_FollowUpAfterBatch ==
  \A i \in Reconcilers :
    \A run \in {watchMutationsCallbackCalls(World, observers[i].kind,
                                            observers[i].recs)} :
      LET followUps == {k \in DOMAIN run.calls : run.calls[k].op = "onMutations"}
      IN /\ Cardinality(followUps) <= 1
         /\ \A k \in followUps :
              /\ k = Len(run.calls)
              /\ run.calls[k].seen = Cardinality(observers[i].recs)
         /\ stillEnabled(World) => Handled(run.calls) = Cardinality(observers[i].recs)
         /\ run.world = watchMutationsCallback(World, observers[i].kind,
                                               observers[i].recs)

\* The filmstrip watcher of an active engine holds a batch of two records or
\* more, so the follow-up callback has records to wait for.
C32_Witness ==
  /\ stillEnabled(World)
  /\ \E i \in Reconcilers :
       /\ observers[i].kind = "film"
       /\ Cardinality(observers[i].recs) >= 2

\* ---------------------------------------------------------------------
\* The ledger and the writes of the patch operations.

\* The step removes hook attribute n of el.
RemovesAttr(el, n) == attrs[el][n] # Null /\ attrs'[el][n] = Null

\* The step removes hook variable v of el.
RemovesVar(el, v) == style[el][v] # Unset /\ style'[el][v] = Unset

\* The step overrides filter property p of el with a value of the engine.
Overrides(el, p) ==
  /\ style'[el][p] # style[el][p]
  /\ style'[el][p] \in {Decl(ValNone, Important), Decl(ValInvert, Important)}

\* C33: in a step that leaves the engine active (the steps that run patch
\* operations; the restore passes run while it is inactive), a hook
\* attribute or hook variable the engine removes and a filter property it
\* overrides is in the ledger after the step, with the value the page held
\* before the write.
C33_LedgerBeforeMutation ==
  [][lastActive' =>
     \A el \in Elements :
       /\ \A n \in HookAttrs :
            RemovesAttr(el, n) =>
              /\ el \in DOMAIN patched'
              /\ n \in DOMAIN patched'[el].attrs
              /\ patched'[el].attrs[n] = attrs[el][n]
       /\ \A v \in HookVars :
            RemovesVar(el, v) =>
              /\ el \in DOMAIN patched'
              /\ v \in DOMAIN patched'[el].styles
              /\ patched'[el].styles[v] = StyleEntry(style[el][v])
       /\ \A p \in VOLATILE_OVERRIDE_PROPS :
            Overrides(el, p) =>
              /\ el \in DOMAIN patched'
              /\ p \in DOMAIN patched'[el].styles
              /\ patched'[el].styles[p] = StyleEntry(style[el][p])]_vars

\* The engine is active after it removed a hook attribute and a hook
\* variable of the page and overrode a filter the page had set: the ledger
\* holds the three values of the page.
C33_Witness ==
  /\ lastActive
  /\ \E el \in Elements :
       /\ \E n \in HookAttrs :
            /\ attrs0[el][n] # Null /\ attrs[el][n] = Null
            /\ el \in DOMAIN patched /\ n \in DOMAIN patched[el].attrs
       /\ \E v \in HookVars :
            /\ style0[el][v] # Unset /\ style[el][v] = Unset
            /\ el \in DOMAIN patched /\ v \in DOMAIN patched[el].styles
       /\ \E p \in VOLATILE_OVERRIDE_PROPS :
            /\ style0[el][p] \notin {Unset, style[el][p]}
            /\ style[el][p].priority = Important
            /\ el \in DOMAIN patched /\ p \in DOMAIN patched[el].styles
            /\ patched[el].styles[p] = StyleEntry(style0[el][p])

\* ---------------------------------------------------------------------
\* The hadValue flag of a style entry.

\* The step writes the ledger's entry of property p of el.
WritesEntry(el, p) ==
  /\ el \in DOMAIN patched' /\ p \in DOMAIN patched'[el].styles
  /\ \/ el \notin DOMAIN patched
     \/ p \notin DOMAIN patched[el].styles
     \/ patched[el].styles[p] # patched'[el].styles[p]

\* The restore of one ledgered element follows the flag of every entry: the
\* property is removed when had is false, and set to the recorded value with
\* the recorded priority when had is true.
RestoreFollowsHad ==
  \A el \in DOMAIN patched :
    \A R \in {RestoreElement(World, el)} :
      \A p \in DOMAIN patched[el].styles :
        LET s == patched[el].styles[p]
        IN /\ ~s.had => R.style[el][p] = Unset
           /\ s.had => R.style[el][p] = Decl(s.value, s.priority)

\* The override finds the property already at the engine's value with
\* important priority and no entry for it.
AlreadyOursUnrecorded(el, p) ==
  /\ p \in VOLATILE_OVERRIDE_PROPS
  /\ style[el][p].priority = Important
  /\ style'[el][p] = style[el][p]
  /\ el \in DOMAIN patched => p \notin DOMAIN patched[el].styles

\* C34 as stated: the restore follows the flag, and the flag of every entry
\* the engine writes is false exactly when the inline value and priority
\* were empty when it was recorded.
C34_HadIffInlineValue ==
  [][/\ RestoreFollowsHad
     /\ \A el \in Elements : \A p \in Props :
          WritesEntry(el, p) =>
            patched'[el].styles[p].had = (style[el][p] # Unset)]_vars

\* C34: the restore follows the flag, and the flag of every entry the engine
\* writes is false exactly when the inline value and priority were empty
\* when it was recorded, or when an override found a volatile property
\* already at the engine's value with important priority and no entry.
C34_HadIffInlineValueOrOwnOverride ==
  [][/\ RestoreFollowsHad
     /\ \A el \in Elements : \A p \in Props :
          WritesEntry(el, p) =>
            patched'[el].styles[p].had =
              (style[el][p] # Unset /\ ~AlreadyOursUnrecorded(el, p))]_vars

\* A restore pass has run with the ledger kept: one entry recorded as absent
\* whose property is now absent, and one recorded with a value and the
\* important priority whose property holds them again.
C34_Witness ==
  /\ ~lastActive
  /\ \E el \in DOMAIN patched : \E p \in DOMAIN patched[el].styles :
       /\ ~patched[el].styles[p].had
       /\ style[el][p] = Unset
  /\ \E el \in DOMAIN patched : \E p \in DOMAIN patched[el].styles :
       /\ patched[el].styles[p].had
       /\ patched[el].styles[p].priority = Important
       /\ style[el][p] = Decl(patched[el].styles[p].value, Important)

\* ---------------------------------------------------------------------
\* The sweep of cleanup leftovers, called on its own on pages with filters
\* of every kind.

SweepFilters ==
  {Unset, Decl(ValNone, Important), Decl(ValNone, ""),
   Decl(ValInvert, Important), Decl(ValInvert, ""),
   Decl(ValInvertDim, Important), Decl(ValInvertOnly, Important),
   Decl(ValBlur, Important)}

InitSweep ==
  /\ topFrame = FALSE
  /\ attrs = [NoAttrs EXCEPT !["target"][AttrFill] = "a"]
  /\ \E f \in SweepFilters, w \in SweepFilters,
        g \in {Unset, Decl(ValNone, Important), Decl(ValInvert, Important)} :
       style = [NoStyle EXCEPT
                  !["target"][PropFilter] = f,
                  !["target"][PropWebkitFilter] = w,
                  !["target"][PropColor] = Decl("red", Important),
                  !["target"][VarFill] = Decl("x", Important),
                  !["root"][PropFilter] = g,
                  ![Glyph][PropFilter] = g,
                  ![Holder][PropFilter] = Decl(ValNone, Important)]
  /\ InitEngine

CallSweep ==
  /\ Install(cleanupDisableLeftovers(World))
  /\ UNCHANGED <<loaded, recomputed>>
  /\ Environment

\* The override of the surface's target, which puts it into the ledger.
CallSurfaceOverride ==
  /\ app # "other"
  /\ Install(OverrideFilters(World, "target",
                             IF pathIsSlides THEN ValInvert ELSE ValNone))
  /\ UNCHANGED <<loaded, recomputed>>
  /\ Environment

NextSweep ==
  \/ CallSweep
  \/ CallSurfaceOverride
  \/ CallStrip

SweepSpec == InitSweep /\ [][NextSweep]_vars

\* The elements the sweep visits on the current surface.
SweepTargets ==
  IF pathIsDocs THEN {"root", "target"}
  ELSE IF pathIsSheets \/ pathIsSlides THEN {"target"}
  ELSE {}

\* The engine's signature on the current surface.
Signature(d) ==
  /\ d.priority = Important
  /\ IF pathIsSlides
     THEN d.value \in {ValInvert, ValInvertDim}
     ELSE d.value = ValNone

\* C35: the sweep removes the inline filter and -webkit-filter of the
\* current surface's targets exactly when they carry the signature
\* (important priority and the value none on Docs and Sheets, a value
\* containing invert( and hue-rotate on Slides filmstrip svgs), whether or
\* not the element is in the ledger; every other property, value and
\* element, the hook attributes and the ledger stay as they are.
C35_SweepRemovesOnlySignature ==
  \A R \in {cleanupDisableLeftovers(World)} :
    /\ \A el \in Nodes : \A p \in Props :
         R.style[el][p] =
           IF el \in SweepTargets /\ p \in {PropFilter, PropWebkitFilter}
              /\ Signature(style[el][p])
           THEN Unset
           ELSE style[el][p]
    /\ R.attrs = attrs
    /\ R.patched = patched
    /\ [R EXCEPT !.style = style] = World

\* The sweep has run on a Sheets page whose canvas is not in the ledger: it
\* removed the canvas's filter: none !important and kept its -webkit-filter
\* without the important priority.
C35_Witness ==
  /\ pathIsSheets
  /\ "target" \notin DOMAIN patched
  /\ style0["target"][PropFilter] = Decl(ValNone, Important)
  /\ style["target"][PropFilter] = Unset
  /\ style0["target"][PropWebkitFilter] = Decl(ValNone, "")
  /\ style["target"][PropWebkitFilter] = Decl(ValNone, "")

\* ---------------------------------------------------------------------
\* Disable sequences started in quick succession: several bumps wait for
\* their removal at once, some of them with the value of the same
\* millisecond.

MaxQuickBumps == 4

DisableSequence ==
  /\ Len(bumpTimers) < MaxQuickBumps
  /\ \E sameMs \in BOOLEAN :
       Install(runDisableRestoreSequenceAt(World, sameMs))
  /\ UNCHANGED <<loaded, recomputed>>
  /\ Environment

NextBump ==
  \/ DisableSequence
  \/ BumpTimeout
  \/ MarkerChange

BumpSpec == Init /\ [][NextBump]_vars

\* setTimeout(..., 0) callbacks run: a pending removal is not held back for
\* ever.
FairBumpSpec == BumpSpec /\ WF_vars(BumpTimeout)

\* The step is a bump: a removal is scheduled.
Bumps == Len(bumpTimers') > Len(bumpTimers)

\* C36: the bump attribute appears on the document element only in a step
\* that starts a disable sequence while the marker is present, and a removal
\* is scheduled in that step; when no further bump is made, the attribute is
\* absent from some point on, whatever the number of bumps before and
\* whether or not some of them carried the same value.
C36_BumpLeavesNoResidue ==
  /\ [][/\ (bumpAttr = 0 /\ bumpAttr' # 0) => Bumps
        /\ Bumps => /\ marker
                    /\ Handle(disableRaf', "raf") \in scheduled'
                    /\ bumpAttr' # 0]_vars
  /\ ([]<><<Bumps>>_vars \/ <>[](bumpAttr = 0))

\* Three removals are pending at once, two of them for bumps of the same
\* millisecond, and the attribute carries the value of the latest bump.
C36_Witness ==
  /\ Len(bumpTimers) = 3
  /\ bumpTimers[1] = bumpTimers[2]
  /\ bumpTimers[3] > bumpTimers[2]
  /\ bumpAttr = bumpTimers[3]

\* ---------------------------------------------------------------------
\* The injected stylesheet.

\* C37: the document never holds more than one style element of the engine,
\* and after every applyAll that element's text is the filter-disabling
\* rules when the computed active is true and empty otherwise.
C37_RulesExactlyWhileActive ==
  /\ Len(styleText) <= 1
  /\ recomputed =>
       /\ Len(styleText) = 1
       /\ lastActive = ComputeActive(World)
       /\ styleText[1] = (IF lastActive THEN "rules" ELSE "")

\* applyAll has just found the engine inactive after an active phase (the
\* passes of the disable sequence are pending): the style element is there
\* and its text is empty.
C37_Witness ==
  /\ recomputed /\ ~lastActive
  /\ Handle(disableRaf, "raf") \in scheduled
  /\ styleText = <<"">>

\* ---------------------------------------------------------------------
\* The stored settings, the initial read and the change notifications.

MaxStorageWrites == 2

\* A key the listener does not know.
KEY_OTHER == "other_key"

\* Writes to chrome.storage: <<key, value, area>>.
WriteInputs ==
  {<<k, v, "sync">> :
     k \in {KEY_MASTER, getCurrentAppExcludeKey} \ {"null"}, v \in StoredValues}
  \cup {<<KEY_MASTER, "true", "local">>, <<KEY_OTHER, "true", "sync">>}

\* storage.sync.set / remove by the popup or another tab: the value is
\* stored and storage.onChanged is fired for a key whose value changed.
StorageSet ==
  /\ storage.writes < MaxStorageWrites
  /\ \E in \in WriteInputs :
       LET k == in[1]
           v == in[2]
           known == in[3] = "sync" /\ k \in KnownKeys
       IN /\ known => storage.stored[k] # v
          /\ storage' =
               [storage EXCEPT
                  !.stored = IF known THEN [@ EXCEPT ![k] = v] ELSE @,
                  !.events = Append(@, <<(k :> v), in[3]>>),
                  !.writes = @ + 1]
  /\ UNCHANGED <<attrs, style, observers, app, marker, hostileWrites,
                 attrs0, style0>>
  /\ UNCHANGED Engine
  /\ recomputed' = FALSE

\* The browser serves the read of loadStateAndApply: the answer holds what
\* is stored at this moment.
ServeGet ==
  /\ ~loaded
  /\ storage.data = NoData
  /\ storage' = [storage EXCEPT !.data = <<storage.stored>>]
  /\ UNCHANGED <<attrs, style, observers, app, marker, hostileWrites,
                 attrs0, style0>>
  /\ UNCHANGED Engine
  /\ recomputed' = FALSE

\* The promise of the read resolves and loadStateAndApply goes on.
ResolveLoad ==
  /\ ~loaded
  /\ storage.data # NoData
  /\ TaskBoundary
  /\ \E W \in {applyAll(updateOverlayVisibility(ReadFlags(World, storage.data[1])))} :
       WithinBounds(W) /\ Install(W)
  /\ loaded' = TRUE
  /\ recomputed' = TRUE
  /\ Environment

\* The oldest change notification reaches the listener.
DeliverChange ==
  /\ storage.events # <<>>
  /\ TaskBoundary
  /\ \E ev \in {Head(storage.events)} :
       /\ \E W \in {onChanged(World, ev[1], ev[2])} :
            WithinBounds(W) /\ Install(W)
       /\ recomputed' = touched(ev[1], ev[2])
  /\ storage' = [storage EXCEPT !.events = Tail(@)]
  /\ UNCHANGED <<loaded, app, marker, topFrame, hostileWrites, attrs0, style0>>

NextStorage ==
  \/ StorageSet
  \/ ServeGet
  \/ ResolveLoad
  \/ DeliverChange
  \/ RafPass
  \/ Timer1Pass
  \/ Timer2Pass
  \/ BumpTimeout

StorageSpec == Init /\ [][NextStorage]_vars

\* The in-memory flags are what the stored values say.
FlagsAsStored ==
  /\ currentMasterEnabled = boolOrDefault(storage.stored[KEY_MASTER], FALSE)
  /\ currentDocsEnabled = boolOrDefault(storage.stored[KEY_DOCS_EXCLUDE], TRUE)
  /\ currentSheetsEnabled = boolOrDefault(storage.stored[KEY_SHEETS_EXCLUDE], TRUE)
  /\ currentSlidesEnabled = boolOrDefault(storage.stored[KEY_SLIDES_EXCLUDE], TRUE)

\* C38: once the initial load has completed and every change notification
\* has been delivered, each in-memory flag equals the stored value when that
\* is a boolean and its default otherwise.
C38_FlagsConvergeToStorage ==
  (loaded /\ storage.events = <<>>) => FlagsAsStored

\* ---------------------------------------------------------------------
\* The in-page button: pointer gestures and clicks.

MaxClicks == 3
MaxQueuedChanges == 2

BoolValue(b) == IF b THEN "true" ELSE "false"

\* Variant: the click handler does not look at didDrag.
ClickPayloadIgnoringDrag(W) ==
  IF getCurrentAppExcludeKey = "null" THEN <<>>
  ELSE IF ~W.currentMasterEnabled
  THEN (KEY_MASTER :> "true") @@ (getCurrentAppExcludeKey :> "true")
  ELSE (getCurrentAppExcludeKey :>
          BoolValue(~getCurrentAppExcludeEnabled(W)))

\* What the click handler hands to storage.sync.set (no key: no call).
ClickPayload(W) ==
  IF W.overlay.didDrag THEN <<>>
  ELSE IF getCurrentAppExcludeKey = "null" THEN <<>>
  ELSE IF ~W.currentMasterEnabled
  THEN (KEY_MASTER :> "true") @@ (getCurrentAppExcludeKey :> "true")
  ELSE (getCurrentAppExcludeKey :>
          BoolValue(~getCurrentAppExcludeEnabled(W)))

\* storage.sync.set(payload): the values are stored, and storage.onChanged
\* is fired with the keys whose value changed.
SyncSet(st, payload) ==
  LET changed == {k \in DOMAIN payload : st.stored[k] # payload[k]}
  IN [st EXCEPT
        !.stored = [k \in DOMAIN @ |->
                      IF k \in DOMAIN payload THEN payload[k] ELSE @[k]],
        !.events = IF changed = {} THEN @
                   ELSE Append(@, <<[k \in changed |-> payload[k]], "sync">>)]

\* What a handler of the button leaves alone.
ButtonFrame ==
  <<attrs, style, observers, app, marker, hostileWrites, attrs0, style0,
    patched, lastActive, disableRaf, disableTimer1, disableTimer2, scheduled,
    bumpAttr, bumpTimers, currentMasterEnabled, currentDocsEnabled,
    currentSheetsEnabled, currentSlidesEnabled, loaded, styleText,
    currentOverlayMasterEnabled, topFrame>>

\* pointerdown with the main button.
PointerDown ==
  /\ overlay.host # 0
  /\ overlay.pointerId = 0
  /\ overlay' = [overlay EXCEPT !.pointerId = 1, !.didDrag = FALSE]
  /\ recomputed' = FALSE
  /\ UNCHANGED storage
  /\ UNCHANGED ButtonFrame

\* pointermove of the captured pointer, less than 4 px from the start or
\* farther.
PointerMove ==
  /\ overlay.host # 0
  /\ overlay.pointerId # 0
  /\ \E far \in BOOLEAN :
       overlay' = [overlay EXCEPT !.didDrag = @ \/ far]
  /\ recomputed' = FALSE
  /\ UNCHANGED storage
  /\ UNCHANGED ButtonFrame

\* pointerup of the captured pointer: after a drag the position is stored.
PointerUp ==
  /\ overlay.host # 0
  /\ overlay.pointerId # 0
  /\ Len(storage.events) < MaxQueuedChanges
  /\ overlay' = [overlay EXCEPT !.pointerId = 0]
  /\ storage' =
       IF overlay.didDrag
       THEN [storage EXCEPT
               !.stored[KEY_POS_MODE] = "custom",
               !.events = Append(@, <<(KEY_POS_MODE :> "custom"), "sync">>)]
       ELSE storage
  /\ recomputed' = FALSE
  /\ UNCHANGED ButtonFrame

\* click on the button, after the pointer was released or from the keyboard.
Click ==
  /\ overlay.host # 0
  /\ overlay.pointerId = 0
  /\ storage.clicks < MaxClicks
  /\ Len(storage.events) < MaxQueuedChanges
  /\ overlay' = [overlay EXCEPT !.didDrag = FALSE]
  /\ storage' = [SyncSet(storage, ClickPayload(World)) EXCEPT !.clicks = @ + 1]
  /\ recomputed' = FALSE
  /\ UNCHANGED ButtonFrame

NextButton ==
  \/ ServeGet
  \/ ResolveLoad
  \/ DeliverChange
  \/ PointerDown
  \/ PointerMove
  \/ PointerUp
  \/ Click
  \/ RafPass
  \/ Timer1Pass
  \/ Timer2Pass
  \/ BumpTimeout
  \/ OverlayScrub

ButtonSpec == InitOverlay /\ [][NextButton]_vars

\* The step handles a click event.
Clicks == storage'.clicks = storage.clicks + 1

\* C39: a click while the master flag is off stores master = true and the
\* current surface's flag = true; a click while it is on stores only the
\* negation of the current surface's flag; a click that ends a drag gesture
\* stores nothing, and no other handler of the button stores an enablement
\* flag.
C39_ClickStoresToggle ==
  [][/\ (Clicks /\ overlay.didDrag) =>
          /\ storage'.stored = storage.stored
          /\ storage'.events = storage.events
     /\ (Clicks /\ ~overlay.didDrag /\ ~currentMasterEnabled) =>
          storage'.stored =
            [storage.stored EXCEPT ![KEY_MASTER] = "true",
                                   ![getCurrentAppExcludeKey] = "true"]
     /\ (Clicks /\ ~overlay.didDrag /\ currentMasterEnabled) =>
          storage'.stored =
            [storage.stored EXCEPT
               ![getCurrentAppExcludeKey] =
                  BoolValue(~getCurrentAppExcludeEnabled(World))]
     /\ (storage'.writes = storage.writes /\ ~(Clicks /\ ~overlay.didDrag)) =>
          \A k \in ExcludeKeys : storage'.stored[k] = storage.stored[k]]_vars

\* A drag has ended and its click was ignored after three clicks that
\* stored: the position mode is stored as custom, the master flag is stored
\* as true and the surface's flag as false.
C39_Witness ==
  /\ overlay.host # 0
  /\ storage.clicks = MaxClicks
  /\ storage.writes = 0
  /\ storage.stored[KEY_POS_MODE] = "custom"
  /\ storage.stored[KEY_MASTER] = "true"
  /\ storage.stored[getCurrentAppExcludeKey] = "false"

====
